---- MODULE Spec2Model ----
(***************************************************************************)
(* State-machine model of the client-side state synchronisation core of    *)
(* the clinical-trials assistant frontend:                                 *)
(*   - the Connectivity Health Monitor (context/ApiContext.jsx) with the   *)
(*     health operation and its cache (api/services/healthService.js),     *)
(*   - the Conversational Session Manager (context/ChatContext.jsx),       *)
(*   - the Paginated Search Manager (context/SearchContext.jsx),           *)
(*   - the failure classification of the Remote Service Client             *)
(*     (api/apiClient.js).                                                 *)
(*                                                                         *)
(* Scheduling: JavaScript's single thread.  A handler runs to its first    *)
(* await of a network call in one step; the continuation after the         *)
(* response (or failure) runs in one step.  An await of an async function  *)
(* that returns without awaiting the network (a health cache hit) resumes  *)
(* in the microtask queue of the same task, before any timer, user event   *)
(* or network response, so such a call is one step.  React state setters   *)
(* are applied, and effects depending on the changed state run, before the *)
(* next task.                                                              *)
(***************************************************************************)
EXTENDS Integers, Sequences, FiniteSets, TLC

VARIABLES
    \* ---- ApiContext.jsx (Connectivity Health Monitor)
    isConnected,            \* useState(true)
    lastChecked,            \* useState(null): <<>> or <<time>>
    isChecking,             \* useState(false)
    apiError,               \* useState(null), the context's `error`
    healthCheckInProgress,  \* useRef(false)
    healthReqs,             \* health network requests in flight
    nChecks,                \* health network requests issued so far
    \* ---- healthService.js
    healthCache,            \* module-level cache {status, timestamp, expiresIn}
    now,                    \* Date.now(), in milliseconds
    \* ---- ChatContext.jsx (Conversational Session Manager)
    messages,               \* useState([])
    chatIsLoading,          \* useState(false)
    chatError,              \* useState(null)
    conversationId,         \* useState(null)
    conversationIdRef,      \* useRef(conversationId)
    chatReqs,               \* chat / conversation requests in flight
    nSends,                 \* chat-manager requests issued so far
    \* ---- SearchContext.jsx (Paginated Search Manager)
    query,                  \* useState('')
    results,                \* useState([])
    totalResults,           \* useState(0)
    filters,                \* useState({phase, gender, healthyVolunteers, status})
    availableFilters,       \* useState({phases, genders, statuses, healthyVolunteers})
    searchIsLoading,        \* useState(false)
    searchError,            \* useState(null)
    page,                   \* useState(1)
    hasMore,                \* useState(false)
    searchReqs,             \* search requests in flight
    nSearches,              \* search requests issued so far
    filterReqs,             \* filter-option requests in flight
    nFilterLoads,           \* filter-option requests issued so far
    \* ---- observation
    lastOp                  \* the operation step taken last and what it returned

healthVars == <<isConnected, lastChecked, isChecking, apiError,
                healthCheckInProgress, healthReqs, nChecks, healthCache, now>>
connectivityState == <<isConnected, lastChecked, isChecking, apiError>>
chatVars == <<messages, chatIsLoading, chatError, conversationId,
              conversationIdRef, chatReqs, nSends>>
conversationSession == <<messages, conversationId, chatIsLoading, chatError>>
filterOptionVars == <<availableFilters, filterReqs, nFilterLoads>>
searchVars == <<query, results, totalResults, filters, filterOptionVars,
                searchIsLoading, searchError, page, hasMore, searchReqs,
                nSearches>>
searchState == <<query, filters, results, totalResults, page, hasMore,
                 searchIsLoading, searchError>>
vars == <<healthVars, chatVars, searchVars, lastOp>>

\* JavaScript null / undefined for string-valued fields.
NULL == "null"
UNDEFINED == "undefined"
\* An absent timestamp is the empty sequence, a present one <<t>>.
NoTime == <<>>

\* What the step taken last was: the operation, a flag (force for a health
\* check; for the resolution of a chat request, whether a session boundary
\* lies between its issue and its resolution; for the resolution of a search
\* request, whether it was for a page after the first), what the step did,
\* what the call returned, and a detail of the payload it handled.
Op(op, flag, out, ret, info) ==
    [op |-> op, flag |-> flag, out |-> out, ret |-> ret, info |-> info]

(***************************************************************************)
(* Bounds of the model.                                                    *)
(***************************************************************************)
MaxChecks == 3
MaxTicks == 3
TickMillis == 10000
MaxSends == 2
MaxSearches == 2
MaxFilterLoads == 3
MaxRequests == 3
MaxPagedSearches == 4
MaxManagerRequests == 2
MaxIntervals == 3

(***************************************************************************)
(* Program constants.                                                      *)
(***************************************************************************)
SuccessTtl == 30000
FailureTtl == 15000
\* setInterval(..., 5 * 60 * 1000)
CheckInterval == 300000
DefaultPageSize == 10

(***************************************************************************)
(* Remote Service Client: failures and their classification.               *)
(***************************************************************************)
\* The ways a request can fail (apiClient.js response interceptor).
FailureKinds == {"http401", "http404", "http500", "noResponse", "setup"}

\* HTTP error statuses a response can carry
HttpStatuses == {400, 401, 403, 404, 499, 500, 503}

\* The errors a request is rejected with, as the response interceptor sees
\* them: error.response with its status, or none; error.request, or none
\* (a request that got no response has one, also when the client's
\* 15-second timeout ended it: code ECONNABORTED; a request that could not
\* be set up has neither).
Errors ==
    {[response |-> TRUE, status |-> st, request |-> TRUE, code |-> "ERR_BAD_RESPONSE"] :
        st \in HttpStatuses}
    \cup {[response |-> FALSE, status |-> 0, request |-> TRUE, code |-> c] :
             c \in {"ERR_NETWORK", "ECONNABORTED"}}
    \cup {[response |-> FALSE, status |-> 0, request |-> FALSE, code |-> "setup"]}

\* the server-error branch testing status > 500
DispatchedAbove500(error) ==
    IF error.response
    THEN (IF error.status = 401 THEN {"auth:unauthorized"} ELSE {})
         \cup (IF error.status > 500 THEN {"api:server-error"} ELSE {})
    ELSE IF error.request
    THEN {"api:network-error"}
    ELSE {}

\* The notifications the response interceptor dispatches for an error
\* before it rejects with it.
Dispatched(error) ==
    IF error.response
    THEN (IF error.status = 401 THEN {"auth:unauthorized"} ELSE {})
         \cup (IF error.status >= 500 THEN {"api:server-error"} ELSE {})
    ELSE IF error.request
    THEN {"api:network-error"}
    ELSE {}

\* the error a failure of each kind is rejected with
ErrorOf(kind) ==
    CASE kind = "http401" ->
           [response |-> TRUE, status |-> 401, request |-> TRUE, code |-> "ERR_BAD_RESPONSE"]
      [] kind = "http404" ->
           [response |-> TRUE, status |-> 404, request |-> TRUE, code |-> "ERR_BAD_RESPONSE"]
      [] kind = "http500" ->
           [response |-> TRUE, status |-> 500, request |-> TRUE, code |-> "ERR_BAD_RESPONSE"]
      [] kind = "noResponse" ->
           [response |-> FALSE, status |-> 0, request |-> TRUE, code |-> "ERR_NETWORK"]
      [] OTHER ->
           [response |-> FALSE, status |-> 0, request |-> FALSE, code |-> "setup"]

\* The global notifications the response interceptor dispatches for a failure.
Broadcasts(kind) == Dispatched(ErrorOf(kind))

\* err.message of the rejected request; a setup error may carry none.
ErrMessage(kind) ==
    CASE kind = "http401" -> "Request failed with status code 401"
      [] kind = "http404" -> "Request failed with status code 404"
      [] kind = "http500" -> "Request failed with status code 500"
      [] kind = "noResponse" -> "Network Error"
      [] OTHER -> ""

\* the notifications the response interceptor can dispatch
Notifications == {"auth:unauthorized", "api:server-error", "api:network-error"}

\* listeners registered for the network notification only
DisconnectsOnNetworkOnly(events) == "api:network-error" \in events

\* The listeners ApiProvider registers: either notification marks the
\* service unreachable.
DisconnectsOn(events) ==
    "api:network-error" \in events \/ "api:server-error" \in events

\* isConnected after the notifications of a failure of kind `kind` were
\* delivered (window.dispatchEvent runs the listeners synchronously).
ConnectedAfterBroadcast(kind) ==
    IF DisconnectsOn(Broadcasts(kind)) THEN FALSE ELSE isConnected

(***************************************************************************)
(* healthService.js                                                        *)
(***************************************************************************)
\* status values a health response can carry
Statuses == {"ok", "degraded"}

Truthy(s) == s # NULL /\ s # UNDEFINED /\ s # ""

CacheValidLe(cache, t) ==
    /\ Truthy(cache.status)
    /\ cache.timestamp # NoTime
    /\ (t - cache.timestamp[1]) <= cache.expiresIn

\* an entry that never expires
CacheValidNoExpiry(cache, t) ==
    /\ Truthy(cache.status)
    /\ cache.timestamp # NoTime

\* the cache-hit condition of checkApiHealth
CacheValid(cache, t) ==
    /\ Truthy(cache.status)
    /\ cache.timestamp # NoTime
    /\ (t - cache.timestamp[1]) < cache.expiresIn

SuccessEntryLongTtl(status, started) ==
    [status |-> status, timestamp |-> <<started>>, expiresIn |-> SuccessTtl + SuccessTtl]

\* the entry checkApiHealth caches for a response; the timestamp is the
\* `now` read when the operation was invoked
SuccessEntry(status, started) ==
    [status |-> status, timestamp |-> <<started>>, expiresIn |-> SuccessTtl]

FailureEntrySuccessTtl(started) ==
    [status |-> "error", timestamp |-> <<started>>, expiresIn |-> SuccessTtl]

\* the entry checkApiHealth caches for a failed request
FailureEntry(started) ==
    [status |-> "error", timestamp |-> <<started>>, expiresIn |-> FailureTtl]

EmptyCache == [status |-> NULL, timestamp |-> NoTime, expiresIn |-> SuccessTtl]

(***************************************************************************)
(* ApiContext.jsx                                                          *)
(***************************************************************************)
SkipsCheckNever(force) == FALSE

\* checkConnection's reentrancy guard
SkipsCheck(force) == healthCheckInProgress /\ ~force

BoolStr(b) == IF b THEN "true" ELSE "false"

\* the forced path bypassing the health cache as well
CheckConnectionForceSkipsCache(force) ==
    IF SkipsCheck(force)
    THEN /\ lastOp' = Op("checkConnection", force, "skipped",
                     UNDEFINED, UNDEFINED)
         /\ UNCHANGED <<healthVars, chatVars, searchVars>>
    ELSE IF CacheValid(healthCache, now) /\ ~force
    THEN /\ isConnected' = (healthCache.status = "ok")
         /\ lastChecked' = <<now>>
         /\ apiError' = NULL
         /\ healthCheckInProgress' = FALSE
         /\ isChecking' = FALSE
         /\ lastOp' = Op("checkConnection", force, "cached",
                     BoolStr(healthCache.status = "ok"), UNDEFINED)
         /\ UNCHANGED <<healthReqs, nChecks, healthCache, now, chatVars, searchVars>>
    ELSE /\ nChecks < MaxChecks
         /\ healthCheckInProgress' = TRUE
         /\ isChecking' = TRUE
         /\ apiError' = NULL
         /\ healthReqs' = healthReqs \cup
                {[id |-> nChecks + 1, force |-> force, started |-> now]}
         /\ nChecks' = nChecks + 1
         /\ lastOp' = Op("checkConnection", force, "requested",
                     UNDEFINED, UNDEFINED)
         /\ UNCHANGED <<isConnected, lastChecked, healthCache, now,
                        chatVars, searchVars>>

\* checkConnection(force): skipped, served from the health cache (the
\* whole call, its finally block included, completes before the next
\* task), or suspended on a health network request.
CheckConnection(force) ==
    IF SkipsCheck(force)
    THEN /\ lastOp' = Op("checkConnection", force, "skipped",
                     UNDEFINED, UNDEFINED)
         /\ UNCHANGED <<healthVars, chatVars, searchVars>>
    ELSE IF CacheValid(healthCache, now)
    THEN /\ isConnected' = (healthCache.status = "ok")
         /\ lastChecked' = <<now>>
         /\ apiError' = NULL
         /\ healthCheckInProgress' = FALSE
         /\ isChecking' = FALSE
         /\ lastOp' = Op("checkConnection", force, "cached",
                     BoolStr(healthCache.status = "ok"), UNDEFINED)
         /\ UNCHANGED <<healthReqs, nChecks, healthCache, now, chatVars, searchVars>>
    ELSE /\ nChecks < MaxChecks
         /\ healthCheckInProgress' = TRUE
         /\ isChecking' = TRUE
         /\ apiError' = NULL
         /\ healthReqs' = healthReqs \cup
                {[id |-> nChecks + 1, force |-> force, started |-> now]}
         /\ nChecks' = nChecks + 1
         /\ lastOp' = Op("checkConnection", force, "requested",
                     UNDEFINED, UNDEFINED)
         /\ UNCHANGED <<isConnected, lastChecked, healthCache, now,
                        chatVars, searchVars>>

\* the startup check and every tick of the 5-minute interval
PeriodicCheck == CheckConnection(FALSE)

\* the manual check exposed to consumers
CheckHealth == CheckConnection(TRUE)

\* of two racing checks only the first to resolve writing isConnected
HealthResponseFirstWins(r, status) ==
    /\ r \in healthReqs
    /\ healthReqs' = healthReqs \ {r}
    /\ healthCache' = SuccessEntry(status, r.started)
    /\ isConnected' = IF isChecking THEN (status = "ok") ELSE isConnected
    /\ lastChecked' = <<now>>
    /\ healthCheckInProgress' = FALSE
    /\ isChecking' = FALSE
    /\ lastOp' = Op("checkConnection", r.force, "response",
                     BoolStr(status = "ok"), UNDEFINED)
    /\ UNCHANGED <<apiError, nChecks, now, chatVars, searchVars>>

\* a health request answered 2xx with response.data.status = status
HealthResponse(r, status) ==
    /\ r \in healthReqs
    /\ healthReqs' = healthReqs \ {r}
    /\ healthCache' = SuccessEntry(status, r.started)
    /\ isConnected' = (status = "ok")
    /\ lastChecked' = <<now>>
    /\ healthCheckInProgress' = FALSE
    /\ isChecking' = FALSE
    /\ lastOp' = Op("checkConnection", r.force, "response",
                     BoolStr(status = "ok"), UNDEFINED)
    /\ UNCHANGED <<apiError, nChecks, now, chatVars, searchVars>>

\* the failure path stamping lastChecked as the success path does
HealthFailureStampsLastChecked(r, kind) ==
    /\ r \in healthReqs
    /\ healthReqs' = healthReqs \ {r}
    /\ healthCache' = FailureEntry(r.started)
    /\ isConnected' = FALSE
    /\ apiError' = IF ErrMessage(kind) # "" THEN ErrMessage(kind)
                   ELSE "Unable to connect to API"
    /\ lastChecked' = <<now>>
    /\ healthCheckInProgress' = FALSE
    /\ isChecking' = FALSE
    /\ lastOp' = Op("checkConnection", r.force, "failure",
                     "false", UNDEFINED)
    /\ UNCHANGED <<nChecks, now, chatVars, searchVars>>

\* the catch block sending the health request once more
HealthFailureRetries(r, kind) ==
    /\ r \in healthReqs
    /\ healthReqs' = (healthReqs \ {r}) \cup
           {[id |-> nChecks + 1, force |-> r.force, started |-> now]}
    /\ nChecks' = nChecks + 1
    /\ healthCache' = FailureEntry(r.started)
    /\ isConnected' = FALSE
    /\ apiError' = IF ErrMessage(kind) # "" THEN ErrMessage(kind)
                   ELSE "Unable to connect to API"
    /\ lastOp' = Op("checkConnection", r.force, "failure",
                     "false", UNDEFINED)
    /\ UNCHANGED <<lastChecked, healthCheckInProgress, isChecking, now,
                   chatVars, searchVars>>

\* a health request that failed (error status, no response, timeout, setup)
HealthFailure(r, kind) ==
    /\ r \in healthReqs
    /\ healthReqs' = healthReqs \ {r}
    /\ healthCache' = FailureEntry(r.started)
    /\ isConnected' = FALSE
    /\ apiError' = IF ErrMessage(kind) # "" THEN ErrMessage(kind)
                   ELSE "Unable to connect to API"
    /\ healthCheckInProgress' = FALSE
    /\ isChecking' = FALSE
    /\ lastOp' = Op("checkConnection", r.force, "failure",
                     "false", UNDEFINED)
    /\ UNCHANGED <<lastChecked, nChecks, now, chatVars, searchVars>>

\* delivery of a notification raised by a failing request of another
\* manager: handleNetworkError / handleServerError run for theirs; the
\* monitor registers no listener for auth:unauthorized
ApiErrorEvent(ev) ==
    /\ isConnected' = IF DisconnectsOn({ev}) THEN FALSE ELSE isConnected
    /\ lastOp' = Op("apiErrorEvent", FALSE, "event",
                     UNDEFINED, UNDEFINED)
    /\ UNCHANGED <<lastChecked, isChecking, apiError, healthCheckInProgress,
                   healthReqs, nChecks, healthCache, now, chatVars, searchVars>>

\* the notifications dispatched, as one label
DispatchLabel(events) ==
    IF events = {} THEN "none"
    ELSE IF Cardinality(events) = 1 THEN CHOOSE ev \in events : TRUE
    ELSE "several"

\* A request of another manager is rejected with `error`: the response
\* interceptor dispatches its notifications, the monitor's listeners run,
\* and the rejection goes on to the caller.
RequestFails(error) ==
    /\ isConnected' = IF DisconnectsOn(Dispatched(error)) THEN FALSE
                      ELSE isConnected
    /\ lastOp' = Op("request", FALSE, "failure", "rejected",
                     DispatchLabel(Dispatched(error)))
    /\ UNCHANGED <<lastChecked, isChecking, apiError, healthCheckInProgress,
                   healthReqs, nChecks, healthCache, now, chatVars, searchVars>>

\* the refresh control calling checkHealth() whatever isChecking is
HandleRefreshClickUnguarded == CheckHealth

\* Header.jsx: the refresh control's click handler
HandleRefreshClick ==
    IF isChecking
    THEN /\ lastOp' = Op("handleRefreshClick", TRUE, "noop",
                     UNDEFINED, UNDEFINED)
         /\ UNCHANGED <<healthVars, chatVars, searchVars>>
    ELSE CheckHealth

\* the 5 minutes of the periodic timer elapse
IntervalElapses ==
    /\ now + CheckInterval <= MaxIntervals * CheckInterval
    /\ now' = now + CheckInterval
    /\ lastOp' = Op("interval", FALSE, "event",
                     UNDEFINED, UNDEFINED)
    /\ UNCHANGED <<isConnected, lastChecked, isChecking, apiError,
                   healthCheckInProgress, healthReqs, nChecks, healthCache,
                   chatVars, searchVars>>

\* the passage of time
Tick ==
    /\ now + TickMillis <= MaxTicks * TickMillis
    /\ now' = now + TickMillis
    /\ lastOp' = Op("tick", FALSE, "event",
                     UNDEFINED, UNDEFINED)
    /\ UNCHANGED <<isConnected, lastChecked, isChecking, apiError,
                   healthCheckInProgress, healthReqs, nChecks, healthCache,
                   chatVars, searchVars>>

(***************************************************************************)
(* ChatContext.jsx                                                         *)
(***************************************************************************)
\* A text is a sequence of chunks; a chunk is a whitespace character or a
\* run of other characters.
Whitespace == {" ", "\t", "\n"}

\* message texts a user can submit
Texts == {<<>>, <<" ", "\n">>, <<"hi">>, <<" ", "why", " ">>}

RECURSIVE TrimStart(_)
TrimStart(t) ==
    IF t # <<>> /\ Head(t) \in Whitespace THEN TrimStart(Tail(t)) ELSE t

RECURSIVE TrimEnd(_)
TrimEnd(t) ==
    IF t # <<>> /\ t[Len(t)] \in Whitespace
    THEN TrimEnd(SubSeq(t, 1, Len(t) - 1))
    ELSE t

\* String.prototype.trim
Trim(t) == TrimEnd(TrimStart(t))

\* conversation ids the remote service hands out; NULL: the response has none
ConvIds == {"c1", "c2"}

ApologyText ==
    <<"Sorry, there was an error processing your request. Please try again.">>

UserMessage(text) ==
    [role |-> "user", content |-> text, evidence |-> UNDEFINED, isError |-> FALSE]

AssistantMessage(response) ==
    [role |-> "assistant", content |-> response.response,
     evidence |-> response.evidence, isError |-> FALSE]

ErrorMessage ==
    [role |-> "assistant", content |-> ApologyText, evidence |-> UNDEFINED,
     isError |-> TRUE]

\* what the remote service answers to a chat turn: the reply text names the
\* turn it answers
ChatResponses(r) ==
    {[conversation_id |-> c, response |-> <<"re:">> \o r.text, evidence |-> "evidence"] :
        c \in ConvIds \cup {NULL}}

\* conversations the remote service stores, and what it answers to a fetch
\* (a payload with no messages field is [messages |-> UNDEFINED])
StoredMessages ==
    <<UserMessage(<<"old">>),
      AssistantMessage([response |-> <<"re:", "old">>, evidence |-> "evidence"])>>

ConversationPayloads(r) ==
    {[conversation_id |-> r.text, hasMessages |-> TRUE, messages |-> StoredMessages],
     [conversation_id |-> r.text, hasMessages |-> TRUE, messages |-> <<>>],
     [conversation_id |-> r.text, hasMessages |-> FALSE, messages |-> <<>>]}

\* ids loadConversation can be called with ('' is falsy)
LoadIds == {"", "c1", "c9"}

SendGuardNoTrim(text) == text = <<>> \/ ~isConnected

SendGuardIgnoresConnectivity(text) == Trim(text) = <<>>

\* sendMessage's guard: !messageText.trim() || !isConnected
SendGuard(text) == Trim(text) = <<>> \/ ~isConnected

AdoptsIdAlways(response) == Truthy(response.conversation_id)

\* the adoption condition: response.conversation_id && !conversationIdRef.current
AdoptsId(response) ==
    Truthy(response.conversation_id) /\ ~Truthy(conversationIdRef)

\* marks the requests in flight as issued before a session boundary (history)
Outdated(reqs) == {[r EXCEPT !.stale = TRUE] : r \in reqs}

\* sendMessage(text) up to its await of the chat request
SendMessage(text) ==
    IF SendGuard(text)
    THEN /\ lastOp' = Op("sendMessage", FALSE,
                     (IF Trim(text) = <<>> THEN "noop-empty"
                      ELSE "noop-disconnected"),
                     UNDEFINED, UNDEFINED)
         /\ UNCHANGED <<healthVars, chatVars, searchVars>>
    ELSE /\ nSends < MaxSends
         /\ messages' = Append(messages, UserMessage(text))
         /\ chatIsLoading' = TRUE
         /\ chatError' = NULL
         /\ chatReqs' = chatReqs \cup
                {[id |-> nSends + 1, kind |-> "send", text |-> text,
                  conversation_id |-> conversationIdRef, stale |-> FALSE,
                  at |-> Len(messages) + 1]}
         /\ nSends' = nSends + 1
         /\ lastOp' = Op("sendMessage", FALSE, "requested",
                     UNDEFINED, UNDEFINED)
         /\ UNCHANGED <<conversationId, conversationIdRef,
                        healthVars, searchVars>>

\* the reply placed before the messages held instead of after them
ChatResponsePrepends(r, response) ==
    /\ r \in chatReqs /\ r.kind = "send"
    /\ chatReqs' = chatReqs \ {r}
    /\ conversationId' = IF AdoptsId(response) THEN response.conversation_id
                         ELSE conversationId
    /\ conversationIdRef' = conversationId'
    /\ messages' = <<AssistantMessage(response)>> \o messages
    /\ chatIsLoading' = FALSE
    /\ lastOp' = Op("sendMessage", r.stale, "response",
                     "assistantMessage", response.conversation_id)
    /\ UNCHANGED <<chatError, nSends, healthVars, searchVars>>

\* the reply appended to the list as it was when the turn was sent
ChatResponseFromSendTimeList(r, response) ==
    /\ r \in chatReqs /\ r.kind = "send"
    /\ chatReqs' = chatReqs \ {r}
    /\ conversationId' = IF AdoptsId(response) THEN response.conversation_id
                         ELSE conversationId
    /\ conversationIdRef' = conversationId'
    /\ messages' = Append(SubSeq(messages, 1, r.at), AssistantMessage(response))
    /\ chatIsLoading' = FALSE
    /\ lastOp' = Op("sendMessage", r.stale, "response",
                     "assistantMessage", response.conversation_id)
    /\ UNCHANGED <<chatError, nSends, healthVars, searchVars>>

\* the reply to a turn sent before a reset discarded
ChatResponseDropsOutdated(r, response) ==
    /\ r \in chatReqs /\ r.kind = "send"
    /\ chatReqs' = chatReqs \ {r}
    /\ conversationId' = IF AdoptsId(response) THEN response.conversation_id
                         ELSE conversationId
    /\ conversationIdRef' = conversationId'
    /\ messages' = IF r.stale THEN messages
                   ELSE Append(messages, AssistantMessage(response))
    /\ chatIsLoading' = FALSE
    /\ lastOp' = Op("sendMessage", r.stale, "response",
                     "assistantMessage", response.conversation_id)
    /\ UNCHANGED <<chatError, nSends, healthVars, searchVars>>

\* sendMessage after the chat request succeeded
ChatResponse(r, response) ==
    /\ r \in chatReqs /\ r.kind = "send"
    /\ chatReqs' = chatReqs \ {r}
    /\ conversationId' = IF AdoptsId(response) THEN response.conversation_id
                         ELSE conversationId
    /\ conversationIdRef' = conversationId'
    /\ messages' = Append(messages, AssistantMessage(response))
    /\ chatIsLoading' = FALSE
    /\ lastOp' = Op("sendMessage", r.stale, "response",
                     "assistantMessage", response.conversation_id)
    /\ UNCHANGED <<chatError, nSends, healthVars, searchVars>>

ChatFailureNoMessage(r, kind) ==
    /\ r \in chatReqs /\ r.kind = "send"
    /\ chatReqs' = chatReqs \ {r}
    /\ isConnected' = ConnectedAfterBroadcast(kind)
    /\ chatError' = "Failed to send message. Please try again."
    /\ chatIsLoading' = FALSE
    /\ lastOp' = Op("sendMessage", r.stale, "failure",
                     NULL, UNDEFINED)
    /\ UNCHANGED <<messages, conversationId, conversationIdRef, nSends,
                   lastChecked, isChecking, apiError, healthCheckInProgress,
                   healthReqs, nChecks, healthCache, now, searchVars>>

\* the catch block reporting the failure to the monitor's lastError
ChatFailureWritesLastError(r, kind) ==
    /\ r \in chatReqs /\ r.kind = "send"
    /\ chatReqs' = chatReqs \ {r}
    /\ isConnected' = ConnectedAfterBroadcast(kind)
    /\ apiError' = "Failed to send message. Please try again."
    /\ chatError' = "Failed to send message. Please try again."
    /\ messages' = Append(messages, ErrorMessage)
    /\ chatIsLoading' = FALSE
    /\ lastOp' = Op("sendMessage", r.stale, "failure",
                     NULL, UNDEFINED)
    /\ UNCHANGED <<conversationId, conversationIdRef, nSends,
                   lastChecked, isChecking, healthCheckInProgress,
                   healthReqs, nChecks, healthCache, now, searchVars>>

\* sendMessage after the chat request failed; the response interceptor has
\* dispatched the failure's notifications before the rejection is caught
ChatFailure(r, kind) ==
    /\ r \in chatReqs /\ r.kind = "send"
    /\ chatReqs' = chatReqs \ {r}
    /\ isConnected' = ConnectedAfterBroadcast(kind)
    /\ chatError' = "Failed to send message. Please try again."
    /\ messages' = Append(messages, ErrorMessage)
    /\ chatIsLoading' = FALSE
    /\ lastOp' = Op("sendMessage", r.stale, "failure",
                     NULL, UNDEFINED)
    /\ UNCHANGED <<conversationId, conversationIdRef, nSends,
                   lastChecked, isChecking, apiError, healthCheckInProgress,
                   healthReqs, nChecks, healthCache, now, searchVars>>

\* loadConversation(id) up to its await of the fetch
LoadConversation(id) ==
    IF ~Truthy(id) \/ ~isConnected
    THEN /\ lastOp' = Op("loadConversation", FALSE, "noop",
                     UNDEFINED, UNDEFINED)
         /\ UNCHANGED <<healthVars, chatVars, searchVars>>
    ELSE /\ nSends < MaxSends
         /\ chatIsLoading' = TRUE
         /\ chatError' = NULL
         /\ chatReqs' = chatReqs \cup
                {[id |-> nSends + 1, kind |-> "load", text |-> id,
                  conversation_id |-> id, stale |-> FALSE, at |-> 0]}
         /\ nSends' = nSends + 1
         /\ lastOp' = Op("loadConversation", FALSE, "requested",
                     UNDEFINED, UNDEFINED)
         /\ UNCHANGED <<messages, conversationId, conversationIdRef,
                        healthVars, searchVars>>

\* loadConversation after the fetch succeeded; a payload without messages
\* is thrown and caught as a failure
ConversationResponse(r, data) ==
    /\ r \in chatReqs /\ r.kind = "load"
    /\ IF data.hasMessages
       THEN /\ messages' = data.messages
            /\ conversationId' = data.conversation_id
            /\ conversationIdRef' = conversationId'
            /\ chatReqs' = Outdated(chatReqs \ {r})
            /\ UNCHANGED chatError
       ELSE /\ chatError' = "Failed to load conversation. Please try again."
            /\ chatReqs' = chatReqs \ {r}
            /\ UNCHANGED <<messages, conversationId, conversationIdRef>>
    /\ chatIsLoading' = FALSE
    /\ lastOp' = Op("loadConversation", r.stale,
                     (IF data.hasMessages THEN "response" ELSE "failure"),
                     UNDEFINED, UNDEFINED)
    /\ UNCHANGED <<nSends, healthVars, searchVars>>

\* the failure path resetting the session as startNewConversation does
ConversationFailureClears(r, kind) ==
    /\ r \in chatReqs /\ r.kind = "load"
    /\ chatReqs' = chatReqs \ {r}
    /\ isConnected' = ConnectedAfterBroadcast(kind)
    /\ chatError' = "Failed to load conversation. Please try again."
    /\ messages' = <<>>
    /\ conversationId' = NULL
    /\ conversationIdRef' = NULL
    /\ chatIsLoading' = FALSE
    /\ lastOp' = Op("loadConversation", r.stale, "failure",
                     UNDEFINED, UNDEFINED)
    /\ UNCHANGED <<nSends,
                   lastChecked, isChecking, apiError, healthCheckInProgress,
                   healthReqs, nChecks, healthCache, now, searchVars>>

\* the fetch failing with no finally block to clear isLoading
ConversationFailureKeepsLoading(r, kind) ==
    /\ r \in chatReqs /\ r.kind = "load"
    /\ chatReqs' = chatReqs \ {r}
    /\ isConnected' = ConnectedAfterBroadcast(kind)
    /\ chatError' = "Failed to load conversation. Please try again."
    /\ lastOp' = Op("loadConversation", r.stale, "failure",
                     UNDEFINED, UNDEFINED)
    /\ UNCHANGED <<messages, conversationId, conversationIdRef, nSends,
                   chatIsLoading,
                   lastChecked, isChecking, apiError, healthCheckInProgress,
                   healthReqs, nChecks, healthCache, now, searchVars>>

\* loadConversation after the fetch failed
ConversationFailure(r, kind) ==
    /\ r \in chatReqs /\ r.kind = "load"
    /\ chatReqs' = chatReqs \ {r}
    /\ isConnected' = ConnectedAfterBroadcast(kind)
    /\ chatError' = "Failed to load conversation. Please try again."
    /\ chatIsLoading' = FALSE
    /\ lastOp' = Op("loadConversation", r.stale, "failure",
                     UNDEFINED, UNDEFINED)
    /\ UNCHANGED <<messages, conversationId, conversationIdRef, nSends,
                   lastChecked, isChecking, apiError, healthCheckInProgress,
                   healthReqs, nChecks, healthCache, now, searchVars>>

StartNewConversationKeepsError ==
    /\ messages' = <<>>
    /\ conversationId' = NULL
    /\ conversationIdRef' = conversationId'
    /\ chatReqs' = Outdated(chatReqs)
    /\ lastOp' = Op("startNewConversation", FALSE, "reset",
                     UNDEFINED, UNDEFINED)
    /\ UNCHANGED <<chatError, chatIsLoading, nSends, healthVars, searchVars>>

\* startNewConversation(); requests in flight are left running
StartNewConversation ==
    /\ messages' = <<>>
    /\ conversationId' = NULL
    /\ conversationIdRef' = conversationId'
    /\ chatError' = NULL
    /\ chatReqs' = Outdated(chatReqs)
    /\ lastOp' = Op("startNewConversation", FALSE, "reset",
                     UNDEFINED, UNDEFINED)
    /\ UNCHANGED <<chatIsLoading, nSends, healthVars, searchVars>>

(***************************************************************************)
(* SearchContext.jsx                                                       *)
(***************************************************************************)
\* query texts a user can submit
Queries == {<<" ">>, <<"melanoma">>, <<"asthma", " ">>}

\* the searchQuery argument: <<>> is null, <<q>> the text q
NoQuery == <<>>
QueryArgs == {NoQuery} \cup {<<q>> : q \in Queries}
\* the searchQuery arguments where the filters are what varies
FilterSpecQueryArgs == {NoQuery, <<<<"asthma", " ">>>>}

FilterNames == {"phase", "gender", "healthyVolunteers", "status"}

\* values the filter controls offer in the model ('' is "any")
FilterValues(name) ==
    CASE name = "phase" -> {"", "PHASE2"}
      [] name = "gender" -> {"", "FEMALE"}
      [] name = "healthyVolunteers" -> {""}
      [] OTHER -> {""}

EmptyFilters ==
    [phase |-> "", gender |-> "", healthyVolunteers |-> "", status |-> ""]

\* the filter options offered before any are loaded
InitialAvailableFilters ==
    [phases |-> <<>>, genders |-> <<"ALL", "MALE", "FEMALE">>,
     statuses |-> <<>>, healthyVolunteers |-> <<"yes", "no">>]

\* page and pageSize arguments of a direct search call
PageArgs == {1}
PageSizeArgs == {DefaultPageSize}

\* The n trials the remote service returns for a request: each trial names
\* the query, filters and page it was fetched for and its place in the page.
Trials(r, n) ==
    [i \in 1..n |-> [q |-> r.query, f |-> r.filters, p |-> r.page, i |-> i]]

\* what the remote service answers to a search: a short page, a page one
\* short of full, a full page, or a payload with no results field
SearchPayloads(r) ==
    {[hasResults |-> TRUE, results |-> Trials(r, n), total |-> 4 * n] :
        n \in {0, r.pageSize - 1, r.pageSize}}
    \cup {[hasResults |-> FALSE, results |-> <<>>, total |-> 0]}

\* data.results || []
ResultList(data) == IF data.hasResults THEN data.results ELSE <<>>

\* the effective query taken from the held query whatever the argument
FinalQueryHeld(searchQuery) == query

\* the effective query of a search call
FinalQuery(searchQuery) == IF searchQuery # NoQuery THEN searchQuery[1] ELSE query

\* updateFilter written without spreading the previous filters
UpdateFilterDropsOthers(name, value) ==
    /\ filters' = [EmptyFilters EXCEPT ![name] = value]
    /\ page' = 1
    /\ lastOp' = Op("updateFilter", FALSE, "set",
                     UNDEFINED, UNDEFINED)
    /\ UNCHANGED <<query, results, totalResults, filterOptionVars,
                   searchIsLoading, searchError, hasMore, searchReqs,
                   nSearches, healthVars, chatVars>>

\* updateFilter(name, value)
UpdateFilter(name, value) ==
    /\ filters' = [filters EXCEPT ![name] = value]
    /\ page' = 1
    /\ lastOp' = Op("updateFilter", FALSE, "set",
                     UNDEFINED, UNDEFINED)
    /\ UNCHANGED <<query, results, totalResults, filterOptionVars,
                   searchIsLoading, searchError, hasMore, searchReqs,
                   nSearches, healthVars, chatVars>>

\* resetFilters without its setPage(1)
ResetFiltersKeepsPage ==
    /\ filters' = EmptyFilters
    /\ lastOp' = Op("resetFilters", FALSE, "set",
                     UNDEFINED, UNDEFINED)
    /\ UNCHANGED <<query, results, totalResults, filterOptionVars,
                   searchIsLoading, searchError, page, hasMore, searchReqs,
                   nSearches, healthVars, chatVars>>

\* resetFilters()
ResetFilters ==
    /\ filters' = EmptyFilters
    /\ page' = 1
    /\ lastOp' = Op("resetFilters", FALSE, "set",
                     UNDEFINED, UNDEFINED)
    /\ UNCHANGED <<query, results, totalResults, filterOptionVars,
                   searchIsLoading, searchError, hasMore, searchReqs,
                   nSearches, healthVars, chatVars>>

\* search(searchQuery, p, ps) up to its await of the search request; `op`
\* names the caller
SearchCallWithin(limit, op, searchQuery, p, ps) ==
    /\ query' = FinalQuery(searchQuery)
    /\ IF Trim(FinalQuery(searchQuery)) = <<>> \/ ~isConnected
       THEN /\ lastOp' = Op(op, FALSE, "noop",
                     UNDEFINED, UNDEFINED)
            /\ UNCHANGED <<results, totalResults, filters, searchIsLoading,
                           searchError, page, hasMore, searchReqs, nSearches>>
       ELSE /\ nSearches < limit
            /\ searchIsLoading' = TRUE
            /\ searchError' = NULL
            /\ searchReqs' = searchReqs \cup
                   {[id |-> nSearches + 1, query |-> FinalQuery(searchQuery),
                     filters |-> filters, page |-> p, pageSize |-> ps]}
            /\ nSearches' = nSearches + 1
            /\ lastOp' = Op(op, FALSE, "requested",
                     UNDEFINED, UNDEFINED)
            /\ UNCHANGED <<results, totalResults, filters, page, hasMore>>
    /\ UNCHANGED <<filterOptionVars, healthVars, chatVars>>

SearchCall(op, searchQuery, p, ps) ==
    SearchCallWithin(MaxSearches, op, searchQuery, p, ps)

Search(searchQuery, p, ps) == SearchCall("search", searchQuery, p, ps)

NextResultsReplace(r, data) == ResultList(data)

\* the results after a response: page 1 replaces, a later page is appended
NextResults(r, data) ==
    IF r.page = 1 THEN ResultList(data) ELSE results \o ResultList(data)

HasMoreAfterStrict(r, data) == Len(ResultList(data)) > r.pageSize

\* (data.results || []).length >= pageSize
HasMoreAfter(r, data) == Len(ResultList(data)) >= r.pageSize

\* the response to a search for a query no longer held discarded
SearchResponseDropsOutdated(r, data) ==
    /\ r \in searchReqs
    /\ searchReqs' = searchReqs \ {r}
    /\ results' = IF r.query # query THEN results ELSE NextResults(r, data)
    /\ totalResults' = IF r.query # query THEN totalResults ELSE data.total
    /\ hasMore' = IF r.query # query THEN hasMore ELSE HasMoreAfter(r, data)
    /\ page' = IF r.query # query THEN page ELSE r.page
    /\ searchIsLoading' = FALSE
    /\ lastOp' = Op("search", r.page > 1, "response",
                     UNDEFINED, UNDEFINED)
    /\ UNCHANGED <<query, filters, filterOptionVars, searchError, nSearches,
                   healthVars, chatVars>>

\* search after the search request succeeded
SearchResponse(r, data) ==
    /\ r \in searchReqs
    /\ searchReqs' = searchReqs \ {r}
    /\ results' = NextResults(r, data)
    /\ totalResults' = data.total
    /\ hasMore' = HasMoreAfter(r, data)
    /\ page' = r.page
    /\ searchIsLoading' = FALSE
    /\ lastOp' = Op("search", r.page > 1, "response",
                     UNDEFINED, UNDEFINED)
    /\ UNCHANGED <<query, filters, filterOptionVars, searchError, nSearches,
                   healthVars, chatVars>>

\* the catch block without its setResults([])
SearchFailureKeepsResults(r, kind) ==
    /\ r \in searchReqs
    /\ searchReqs' = searchReqs \ {r}
    /\ isConnected' = ConnectedAfterBroadcast(kind)
    /\ searchError' = "Failed to search for trials. Please try again."
    /\ totalResults' = 0
    /\ hasMore' = FALSE
    /\ searchIsLoading' = FALSE
    /\ lastOp' = Op("search", r.page > 1, "failure",
                     UNDEFINED, UNDEFINED)
    /\ UNCHANGED <<query, results, filters, filterOptionVars, page, nSearches,
                   lastChecked, isChecking, apiError, healthCheckInProgress,
                   healthReqs, nChecks, healthCache, now, chatVars>>

\* search after the search request failed
SearchFailure(r, kind) ==
    /\ r \in searchReqs
    /\ searchReqs' = searchReqs \ {r}
    /\ isConnected' = ConnectedAfterBroadcast(kind)
    /\ searchError' = "Failed to search for trials. Please try again."
    /\ results' = <<>>
    /\ totalResults' = 0
    /\ hasMore' = FALSE
    /\ searchIsLoading' = FALSE
    /\ lastOp' = Op("search", r.page > 1, "failure",
                     UNDEFINED, UNDEFINED)
    /\ UNCHANGED <<query, filters, filterOptionVars, page, nSearches,
                   lastChecked, isChecking, apiError, healthCheckInProgress,
                   healthReqs, nChecks, healthCache, now, chatVars>>

NextPageSame(pg) == pg

\* loadMore's next page
NextPage(pg) == pg + 1

\* loadMore()
LoadMoreWithin(limit) ==
    IF searchIsLoading \/ ~hasMore
    THEN /\ lastOp' = Op("loadMore", FALSE, "noop",
                     UNDEFINED, UNDEFINED)
         /\ UNCHANGED <<healthVars, chatVars, searchVars>>
    ELSE SearchCallWithin(limit, "loadMore", NoQuery, NextPage(page),
                          DefaultPageSize)

LoadMore == LoadMoreWithin(MaxSearches)

\* A remote service whose data does not change: the trials matching the
\* query fill two pages and part of a third.
PageLength(p) ==
    IF p <= 2 THEN DefaultPageSize
    ELSE IF p = 3 THEN DefaultPageSize - 1
    ELSE 0

\* what that service answers to a search
PagePayloads(r) ==
    {data \in SearchPayloads(r) :
        data.hasResults /\ Len(data.results) = PageLength(r.page)}

\* What the remote service answers to a filter-option fetch: an object of
\* option lists keyed by name (any of the keys may be missing, others may
\* be present), or a body that is no object (hasData FALSE).
FilterOptionPayloads ==
    {[hasData |-> TRUE,
      options |-> [phases |-> <<"PHASE1", "PHASE2">>,
                   statuses |-> <<"RECRUITING">>]],
     [hasData |-> TRUE,
      options |-> [phases |-> <<"PHASE3">>, genders |-> <<"ALL">>,
                   conditions |-> <<"asthma">>]],
     [hasData |-> TRUE, options |-> [statuses |-> <<"COMPLETED">>]],
     [hasData |-> FALSE, options |-> <<>>]}

\* the object spread {...f, ...g}: g's keys win
Spread(f, g) ==
    [k \in DOMAIN f \cup DOMAIN g |-> IF k \in DOMAIN g THEN g[k] ELSE f[k]]

\* options[key] || []
OrEmptyList(options, key) ==
    IF key \in DOMAIN options THEN options[key] ELSE <<>>

\* the fetched options taking the place of the state
MergeOptionsReplace(prev, options) == options

\* { ...prev, phases: options.phases || [], statuses: options.statuses || [],
\*   ...options }
MergeOptions(prev, options) ==
    Spread(Spread(prev, [phases |-> OrEmptyList(options, "phases"),
                         statuses |-> OrEmptyList(options, "statuses")]),
           options)

\* loadFilterOptions() up to its await of the fetch (run by the mount
\* effect, again whenever isConnected changes, and by consumers)
LoadFilterOptions ==
    IF ~isConnected
    THEN /\ lastOp' = Op("loadFilterOptions", FALSE, "noop",
                     UNDEFINED, UNDEFINED)
         /\ UNCHANGED <<healthVars, chatVars, searchVars>>
    ELSE /\ nFilterLoads < MaxFilterLoads
         /\ filterReqs' = filterReqs \cup {[id |-> nFilterLoads + 1]}
         /\ nFilterLoads' = nFilterLoads + 1
         /\ lastOp' = Op("loadFilterOptions", FALSE, "requested",
                     UNDEFINED, UNDEFINED)
         /\ UNCHANGED <<query, results, totalResults, filters,
                        availableFilters, searchIsLoading, searchError, page,
                        hasMore, searchReqs, nSearches, healthVars, chatVars>>

\* loadFilterOptions after the fetch succeeded; reading a key of a body
\* that is no object throws into the catch block
FilterOptionsResponse(r, data) ==
    /\ r \in filterReqs
    /\ filterReqs' = filterReqs \ {r}
    /\ IF data.hasData
       THEN /\ availableFilters' = MergeOptions(availableFilters, data.options)
            /\ UNCHANGED searchError
       ELSE /\ searchError' = "Failed to load filter options"
            /\ UNCHANGED availableFilters
    /\ lastOp' = Op("loadFilterOptions", FALSE,
                     (IF data.hasData THEN "response" ELSE "failure"),
                     UNDEFINED, UNDEFINED)
    /\ UNCHANGED <<query, results, totalResults, filters, searchIsLoading,
                   page, hasMore, searchReqs, nSearches, nFilterLoads,
                   healthVars, chatVars>>

\* a catch block that only logs
FilterOptionsFailureSilent(r, kind) ==
    /\ r \in filterReqs
    /\ filterReqs' = filterReqs \ {r}
    /\ isConnected' = ConnectedAfterBroadcast(kind)
    /\ lastOp' = Op("loadFilterOptions", FALSE, "failure",
                     UNDEFINED, UNDEFINED)
    /\ UNCHANGED <<query, results, totalResults, filters, availableFilters,
                   searchIsLoading, searchError, page, hasMore, searchReqs,
                   nSearches, nFilterLoads,
                   lastChecked, isChecking, apiError, healthCheckInProgress,
                   healthReqs, nChecks, healthCache, now, chatVars>>

\* loadFilterOptions after the fetch failed
FilterOptionsFailure(r, kind) ==
    /\ r \in filterReqs
    /\ filterReqs' = filterReqs \ {r}
    /\ isConnected' = ConnectedAfterBroadcast(kind)
    /\ searchError' = "Failed to load filter options"
    /\ lastOp' = Op("loadFilterOptions", FALSE, "failure",
                     UNDEFINED, UNDEFINED)
    /\ UNCHANGED <<query, results, totalResults, filters, availableFilters,
                   searchIsLoading, page, hasMore, searchReqs, nSearches,
                   nFilterLoads,
                   lastChecked, isChecking, apiError, healthCheckInProgress,
                   healthReqs, nChecks, healthCache, now, chatVars>>

InitHealth ==
    /\ isConnected = TRUE
    /\ lastChecked = NoTime
    /\ isChecking = FALSE
    /\ apiError = NULL
    /\ healthCheckInProgress = FALSE
    /\ healthReqs = {}
    /\ nChecks = 0
    /\ healthCache = EmptyCache
    /\ now = 0

InitChat ==
    /\ messages = <<>>
    /\ chatIsLoading = FALSE
    /\ chatError = NULL
    /\ conversationId = NULL
    /\ conversationIdRef = NULL
    /\ chatReqs = {}
    /\ nSends = 0

InitSearch ==
    /\ query = <<>>
    /\ results = <<>>
    /\ totalResults = 0
    /\ filters = EmptyFilters
    /\ availableFilters = InitialAvailableFilters
    /\ searchIsLoading = FALSE
    /\ searchError = NULL
    /\ page = 1
    /\ hasMore = FALSE
    /\ searchReqs = {}
    /\ nSearches = 0
    /\ filterReqs = {}
    /\ nFilterLoads = 0

Init ==
    /\ InitHealth
    /\ InitChat
    /\ InitSearch
    /\ lastOp = Op("mount", FALSE, "event",
                     UNDEFINED, UNDEFINED)

NextHealth ==
    \/ PeriodicCheck
    \/ CheckHealth
    \/ \E r \in healthReqs, s \in Statuses : HealthResponse(r, s)
    \/ \E r \in healthReqs, k \in FailureKinds : HealthFailure(r, k)
    \/ \E ev \in Notifications : ApiErrorEvent(ev)
    \/ Tick

\* The Connectivity Health Monitor with the health operation and its cache.
SpecHealth == Init /\ [][NextHealth]_vars

NextChat ==
    \/ \E t \in Texts : SendMessage(t)
    \/ \E r \in chatReqs : \E response \in ChatResponses(r) :
          ChatResponse(r, response)
    \/ \E r \in chatReqs, k \in FailureKinds : ChatFailure(r, k)
    \/ \E id \in LoadIds : LoadConversation(id)
    \/ \E r \in chatReqs : \E data \in ConversationPayloads(r) :
          ConversationResponse(r, data)
    \/ \E r \in chatReqs, k \in FailureKinds : ConversationFailure(r, k)
    \/ StartNewConversation
    \/ \E ev \in {"api:network-error", "api:server-error"} : ApiErrorEvent(ev)

\* The Conversational Session Manager; connectivity is lost through the
\* notifications of failing requests.
SpecChat == Init /\ [][NextChat]_vars

NextSearch ==
    \/ \E q \in QueryArgs, p \in PageArgs, ps \in PageSizeArgs : Search(q, p, ps)
    \/ \E r \in searchReqs : \E data \in SearchPayloads(r) : SearchResponse(r, data)
    \/ \E r \in searchReqs, k \in FailureKinds : SearchFailure(r, k)
    \/ LoadMore
    \/ \E value \in FilterValues("phase") : UpdateFilter("phase", value)
    \/ ResetFilters

\* The Paginated Search Manager with every query and the phase filter in
\* use; connectivity is lost through the notifications of failing requests.
SpecSearch == Init /\ [][NextSearch]_vars

NextFilters ==
    \/ \E q \in FilterSpecQueryArgs, p \in PageArgs, ps \in PageSizeArgs :
          Search(q, p, ps)
    \/ \E r \in searchReqs : \E data \in SearchPayloads(r) : SearchResponse(r, data)
    \/ \E r \in searchReqs, k \in FailureKinds : SearchFailure(r, k)
    \/ LoadMore
    \/ \E name \in FilterNames : \E value \in FilterValues(name) :
          UpdateFilter(name, value)
    \/ ResetFilters

\* The Paginated Search Manager with every filter control in use and one
\* query searched for.
SpecFilters == Init /\ [][NextFilters]_vars

NextFilterOptions ==
    \/ LoadFilterOptions
    \/ \E r \in filterReqs : \E data \in FilterOptionPayloads :
          FilterOptionsResponse(r, data)
    \/ \E r \in filterReqs, k \in FailureKinds : FilterOptionsFailure(r, k)

\* The loading of the filter options; connectivity is lost through the
\* notifications of failing requests.
SpecFilterOptions == Init /\ [][NextFilterOptions]_vars

\* network requests issued so far by all the managers together
RequestsIssued == nChecks + nSends + nSearches + nFilterLoads

NextFailures ==
    \/ RequestsIssued < MaxRequests /\ PeriodicCheck
    \/ RequestsIssued < MaxRequests /\ CheckHealth
    \/ \E r \in healthReqs, k \in FailureKinds : HealthFailure(r, k)
    \/ RequestsIssued < MaxRequests /\ SendMessage(<<"hi">>)
    \/ \E r \in chatReqs, k \in FailureKinds : ChatFailure(r, k)
    \/ RequestsIssued < MaxRequests /\ LoadConversation("c1")
    \/ \E r \in chatReqs, k \in FailureKinds : ConversationFailure(r, k)
    \/ \E r \in chatReqs : \E data \in ConversationPayloads(r) :
          ~data.hasMessages /\ ConversationResponse(r, data)
    \/ RequestsIssued < MaxRequests
          /\ Search(<<<<"melanoma">>>>, 1, DefaultPageSize)
    \/ \E r \in searchReqs, k \in FailureKinds : SearchFailure(r, k)
    \/ \E r \in searchReqs : \E data \in SearchPayloads(r) :
          ~data.hasResults /\ SearchResponse(r, data)
    \/ RequestsIssued < MaxRequests /\ LoadFilterOptions
    \/ \E r \in filterReqs, k \in FailureKinds : FilterOptionsFailure(r, k)
    \/ \E r \in filterReqs : \E data \in FilterOptionPayloads :
          ~data.hasData /\ FilterOptionsResponse(r, data)

\* Every manager against a service whose every request fails or is answered
\* with a malformed payload.
SpecFailures == Init /\ [][NextFailures]_vars

NextManagers ==
    \/ RequestsIssued < MaxManagerRequests /\ SendMessage(<<"hi">>)
    \/ \E r \in chatReqs : \E response \in ChatResponses(r) :
          ChatResponse(r, response)
    \/ \E r \in chatReqs, k \in FailureKinds : ChatFailure(r, k)
    \/ RequestsIssued < MaxManagerRequests /\ LoadConversation("c1")
    \/ \E r \in chatReqs : \E data \in ConversationPayloads(r) :
          ConversationResponse(r, data)
    \/ \E r \in chatReqs, k \in FailureKinds : ConversationFailure(r, k)
    \/ StartNewConversation
    \/ RequestsIssued < MaxManagerRequests
          /\ Search(<<<<"melanoma">>>>, 1, DefaultPageSize)
    \/ \E r \in searchReqs : \E data \in SearchPayloads(r) : SearchResponse(r, data)
    \/ \E r \in searchReqs, k \in FailureKinds : SearchFailure(r, k)
    \/ RequestsIssued < MaxManagerRequests /\ LoadMore
    \/ UpdateFilter("phase", "PHASE2")
    \/ ResetFilters
    \/ RequestsIssued < MaxManagerRequests /\ LoadFilterOptions
    \/ \E r \in filterReqs : \E data \in FilterOptionPayloads :
          FilterOptionsResponse(r, data)
    \/ \E r \in filterReqs, k \in FailureKinds : FilterOptionsFailure(r, k)

\* The chat and search managers side by side, the Health Monitor making
\* no check of its own.
SpecManagers == Init /\ [][NextManagers]_vars

\* some chat turn or conversation fetch in flight resolves
ChatResolves ==
    \/ \E r \in chatReqs : \E response \in ChatResponses(r) :
          ChatResponse(r, response)
    \/ \E r \in chatReqs, k \in FailureKinds : ChatFailure(r, k)
    \/ \E r \in chatReqs : \E data \in ConversationPayloads(r) :
          ConversationResponse(r, data)
    \/ \E r \in chatReqs, k \in FailureKinds : ConversationFailure(r, k)

\* some search in flight resolves
SearchResolves ==
    \/ \E r \in searchReqs : \E data \in SearchPayloads(r) : SearchResponse(r, data)
    \/ \E r \in searchReqs, k \in FailureKinds : SearchFailure(r, k)

NextLoading ==
    \/ RequestsIssued < MaxManagerRequests /\ SendMessage(<<"hi">>)
    \/ RequestsIssued < MaxManagerRequests /\ LoadConversation("c1")
    \/ StartNewConversation
    \/ ChatResolves
    \/ RequestsIssued < MaxManagerRequests
          /\ Search(<<<<"melanoma">>>>, 1, DefaultPageSize)
    \/ RequestsIssued < MaxManagerRequests /\ LoadMore
    \/ SearchResolves

\* The operations of the managers that set isLoading, when no request
\* stays unanswered for ever: the client's timeout (15000 ms) rejects every
\* request the service leaves unanswered.
SpecLoading ==
    /\ Init /\ [][NextLoading]_vars
    /\ WF_vars(ChatResolves)
    /\ WF_vars(SearchResolves)

NextPaging ==
    \/ SearchCallWithin(MaxPagedSearches, "search", <<<<"melanoma">>>>, 1,
                        DefaultPageSize)
    \/ LoadMoreWithin(MaxPagedSearches)
    \/ \E r \in searchReqs : \E data \in PagePayloads(r) : SearchResponse(r, data)
    \/ \E r \in searchReqs, k \in FailureKinds : SearchFailure(r, k)

\* The Trial Search Manager paging through one query under fixed filters,
\* against a remote service whose data does not change.
SpecPaging == Init /\ [][NextPaging]_vars

NextClient ==
    \/ \E error \in Errors : RequestFails(error)
    \/ PeriodicCheck
    \/ \E r \in healthReqs, s \in Statuses : HealthResponse(r, s)
    \/ \E r \in healthReqs, k \in FailureKinds : HealthFailure(r, k)
    \/ Tick

\* The Remote Service Client rejecting the requests of the other managers,
\* observed by the polling Health Monitor.
SpecClient == Init /\ [][NextClient]_vars

\* The Connectivity Health Monitor when only the startup check and the
\* periodic ticks drive it (no manual check).
\* The remote service can still fail: it stops failing early enough for
\* the timer to fire once more and a health request to be made.
ServiceMayFail ==
    /\ nChecks < MaxChecks
    /\ now + CheckInterval <= MaxIntervals * CheckInterval

\* some health request in flight resolves
HealthResolves ==
    \/ \E r \in healthReqs : HealthResponse(r, "ok")
    \/ ServiceMayFail /\ \E r \in healthReqs : HealthResponse(r, "degraded")
    \/ ServiceMayFail /\ \E r \in healthReqs, k \in FailureKinds : HealthFailure(r, k)

NextRecovery ==
    \/ PeriodicCheck
    \/ HealthResolves
    \/ ServiceMayFail
          /\ \E ev \in {"api:network-error", "api:server-error"} : ApiErrorEvent(ev)
    \/ IntervalElapses

\* The Health Monitor polling a remote service that fails for a while and
\* then answers every health request with "ok": the timer keeps firing,
\* time passes, and every request resolves (the client's timeout).
SpecRecovery ==
    /\ Init /\ [][NextRecovery]_vars
    /\ WF_vars(PeriodicCheck)
    /\ WF_vars(IntervalElapses)
    /\ WF_vars(HealthResolves)

NextRefresh ==
    \/ PeriodicCheck
    \/ HandleRefreshClick
    \/ \E r \in healthReqs, s \in Statuses : HealthResponse(r, s)
    \/ \E r \in healthReqs, k \in FailureKinds : HealthFailure(r, k)
    \/ \E ev \in Notifications : ApiErrorEvent(ev)
    \/ Tick

\* The Health Monitor when manual checks come from the header's refresh
\* control only.
SpecRefresh == Init /\ [][NextRefresh]_vars

NextPolling ==
    \/ PeriodicCheck
    \/ \E r \in healthReqs, s \in Statuses : HealthResponse(r, s)
    \/ \E r \in healthReqs, k \in FailureKinds : HealthFailure(r, k)
    \/ \E ev \in {"api:network-error", "api:server-error"} : ApiErrorEvent(ev)
    \/ Tick

SpecPolling == Init /\ [][NextPolling]_vars

(***************************************************************************)
(* Properties of the Connectivity Health Monitor and the health cache.     *)
(***************************************************************************)
\* a step that invokes the health operation: a check that was not skipped
InvokesHealth(force) ==
    CheckConnection(force) /\ lastOp'.out \in {"cached", "requested"}

\* the step issued exactly one health network request
IssuesHealthRequest ==
    /\ nChecks' = nChecks + 1
    /\ \E r \in healthReqs' : healthReqs' = healthReqs \cup {r} /\ r \notin healthReqs

\* the step issued no health network request and queued nothing
IssuesNoHealthRequest == healthReqs' = healthReqs /\ nChecks' = nChecks

\* age of the cached entry
CacheAge == now - healthCache.timestamp[1]

\* C1: when only unforced checks are made (startup check, periodic ticks),
\* at most one health request is in flight in every state, and an unforced
\* call made while a health request is in flight is skipped: it issues no
\* request, queues nothing and changes no field of ConnectivityState (nor
\* the in-progress flag or the cache).
C1_UnforcedChecksNeverOverlap ==
    /\ [](Cardinality(healthReqs) <= 1)
    /\ [][(PeriodicCheck /\ healthReqs # {}) =>
            /\ UNCHANGED healthVars
            /\ lastOp'.out = "skipped"]_vars

C1_Witness ==
    /\ lastOp.op = "checkConnection" /\ ~lastOp.flag /\ lastOp.out = "skipped"
    /\ Cardinality(healthReqs) = 1
    /\ isChecking

\* C2: isChecking is true exactly when at least one health check is in
\* flight.
C2_IsCheckingIffInFlight == isChecking <=> (healthReqs # {})

C4_FailureCache ==
    [][/\ \A r \in healthReqs, k \in FailureKinds :
            HealthFailure(r, k) =>
                healthCache' = [status |-> "error", timestamp |-> <<r.started>>,
                                expiresIn |-> 15000]
       /\ \A force \in BOOLEAN :
            InvokesHealth(force) =>
                /\ (healthCache.status = "error" /\ CacheAge < 15000) =>
                     /\ IssuesNoHealthRequest
                     /\ lastOp'.out = "cached" /\ lastOp'.ret = "false"
                     /\ ~isConnected'
                     /\ apiError' = NULL
                     /\ healthCache' = healthCache
                /\ (healthCache.status = "error" /\ CacheAge >= 15000) =>
                     IssuesHealthRequest]_vars

C4_Witness ==
    /\ lastOp.op = "checkConnection" /\ lastOp.out = "cached"
    /\ healthCache.status = "error"
    /\ CacheAge > 0
    /\ ~isConnected /\ apiError = NULL

(***************************************************************************)
(* Properties of the Conversational Session Manager.                       *)
(***************************************************************************)
\* the step issued no chat-manager request
IssuesNoChatRequest == chatReqs' = chatReqs /\ nSends' = nSends

\* C5: sendMessage(text) with text empty after trimming changes nothing in
\* any state: no message is appended, no request is issued, and messages,
\* conversationId, isLoading and error keep their values.
C5_BlankSendIsNoOp ==
    [][\A t \in Texts :
          (SendMessage(t) /\ Trim(t) = <<>>) =>
              /\ UNCHANGED conversationSession
              /\ IssuesNoChatRequest
              /\ lastOp'.ret = UNDEFINED]_vars

C5_Witness ==
    /\ lastOp.op = "sendMessage" /\ lastOp.out = "noop-empty"
    /\ isConnected
    /\ messages # <<>>

\* C6: sendMessage(text) while isConnected is false changes nothing, for
\* every text: no user message is appended, no request is issued and the
\* ConversationSession keeps its value.
C6_DisconnectedSendIsNoOp ==
    [][\A t \in Texts :
          (SendMessage(t) /\ ~isConnected) =>
              /\ UNCHANGED conversationSession
              /\ IssuesNoChatRequest
              /\ lastOp'.ret = UNDEFINED]_vars

C6_Witness ==
    /\ lastOp.op = "sendMessage" /\ lastOp.out = "noop-disconnected"
    /\ ~isConnected
    /\ messages # <<>>

\* C7: a successful chat response changes conversationId only when none is
\* held and the response carries one, and then sets it to the response's;
\* while an id is held no chat response or failure changes it (only
\* startNewConversation and loadConversation do).
C7_FirstResponseWins ==
    [][/\ \A r \in chatReqs : \A response \in ChatResponses(r) :
            ChatResponse(r, response) =>
                /\ Truthy(conversationId) => conversationId' = conversationId
                /\ (~Truthy(conversationId) /\ Truthy(response.conversation_id)) =>
                       conversationId' = response.conversation_id
                /\ (~Truthy(conversationId) /\ ~Truthy(response.conversation_id)) =>
                       conversationId' = conversationId
       /\ \A r \in chatReqs, k \in FailureKinds :
            ChatFailure(r, k) => conversationId' = conversationId
       /\ \A t \in Texts : SendMessage(t) => conversationId' = conversationId]_vars

\* a response carrying another id arrived while an id was held
C7_Witness ==
    /\ lastOp.op = "sendMessage" /\ lastOp.out = "response"
    /\ Truthy(lastOp.info) /\ Truthy(conversationId)
    /\ lastOp.info # conversationId
    /\ Len(messages) = 4

\* what every failed chat request does
FailureEffects(r) ==
    /\ messages' = Append(messages, ErrorMessage)
    /\ Truthy(chatError')
    /\ lastOp'.ret = NULL
    /\ conversationId' = conversationId

\* C8 as stated: when the chat request of a sendMessage fails, one error
\* message with the apology text is appended, error is set, the call
\* resolves to null, conversationId is unchanged, and the user message of
\* that send is in messages before the error message.
C8_FailureKeepsUserMessage ==
    [][\A r \in chatReqs, k \in FailureKinds :
          ChatFailure(r, k) =>
              /\ FailureEffects(r)
              /\ r.at < Len(messages')
              /\ messages'[r.at] = UserMessage(r.text)]_vars

\* C8 amended: as above, but the user message of that send is still before
\* the error message only if no startNewConversation and no successful
\* loadConversation replaced the list between the send and its failure.
C8_FailureAppendsOneError ==
    [][\A r \in chatReqs, k \in FailureKinds :
          ChatFailure(r, k) =>
              /\ FailureEffects(r)
              /\ ~r.stale =>
                    /\ r.at < Len(messages')
                    /\ messages'[r.at] = UserMessage(r.text)]_vars

C8_Witness ==
    /\ lastOp.op = "sendMessage" /\ lastOp.out = "failure" /\ ~lastOp.flag
    /\ lastOp.ret = NULL
    /\ Len(messages) >= 2
    /\ messages[Len(messages)] = ErrorMessage
    /\ messages[Len(messages) - 1].role = "user"
    /\ Truthy(chatError)

\* C9: startNewConversation() leaves messages = [], conversationId absent
\* and error absent, whatever the state and however many requests are in
\* flight, and every request in flight stays in flight.
C9_StartNewConversationResets ==
    [][StartNewConversation =>
          /\ messages' = <<>>
          /\ conversationId' = NULL
          /\ chatError' = NULL
          /\ {r.id : r \in chatReqs'} = {r.id : r \in chatReqs}]_vars

C9_Witness ==
    /\ lastOp.op = "startNewConversation"
    /\ Cardinality(chatReqs) = 2
    /\ messages = <<>> /\ conversationId = NULL /\ chatError = NULL

(***************************************************************************)
(* Properties of the Paginated Search Manager.                             *)
(***************************************************************************)
\* C10: with no other search in flight, a successful response to a page-1
\* search replaces results with the returned list and sets page to 1; a
\* response of at least pageSize items sets hasMore; loadMore() (connected,
\* held query not blank, hasMore set, not loading) then issues exactly one
\* search for the held query, page + 1 and the held pageSize; and the
\* successful response to a later page is appended after the existing
\* results, so the length grows by the returned count, and page becomes
\* the page fetched.
C10_SearchThenLoadMore ==
    [][/\ \A r \in searchReqs :
            (searchReqs = {r} /\ searchReqs' = {}) =>
                \A data \in SearchPayloads(r) :
                    SearchResponse(r, data) =>
                        /\ r.page = 1 =>
                              /\ results' = ResultList(data)
                              /\ page' = 1
                        /\ Len(ResultList(data)) >= r.pageSize => hasMore'
                        /\ r.page > 1 =>
                              /\ results' = results \o ResultList(data)
                              /\ Len(results') =
                                    Len(results) + Len(ResultList(data))
                              /\ page' = r.page
       /\ (LoadMore /\ hasMore /\ ~searchIsLoading /\ isConnected
             /\ Trim(query) # <<>> /\ searchReqs = {}) =>
                /\ nSearches' = nSearches + 1
                /\ \E r \in searchReqs' :
                      /\ searchReqs' = {r}
                      /\ r.query = query /\ r.filters = filters
                      /\ r.page = page + 1
                      /\ r.pageSize = DefaultPageSize]_vars

\* page 2, fetched by loadMore, was appended to a full page 1
C10_Witness ==
    /\ lastOp.op = "search" /\ lastOp.out = "response"
    /\ searchReqs = {}
    /\ page = 2
    /\ Len(results) = 2 * DefaultPageSize
    /\ results[1].p = 1 /\ results[DefaultPageSize].p = 1
    /\ results[DefaultPageSize + 1].p = 2
    /\ results[1].q = query /\ results[Len(results)].q = query
    /\ hasMore

\* C11: hasMore is false initially; the successful resolution of a search
\* request sets it to whether the number of items returned is at least the
\* pageSize the request was issued with, a failed resolution sets it to
\* false, and no step that resolves no search request changes it.  Hence in
\* every state hasMore is true exactly when the most recently resolved
\* search request succeeded and returned at least pageSize items.
C11_HasMoreTracksLastResolved ==
    /\ ~hasMore
    /\ [][/\ \A r \in searchReqs :
               (searchReqs' = searchReqs \ {r}) =>
                   /\ \A data \in SearchPayloads(r) :
                          SearchResponse(r, data) =>
                              (hasMore' <=>
                                  Len(ResultList(data)) >= r.pageSize)
                   /\ \A k \in FailureKinds :
                          SearchFailure(r, k) => ~hasMore'
          /\ (searchReqs \subseteq searchReqs') => hasMore' = hasMore]_vars

\* a full page resolved while a later search is still in flight
C11_Witness ==
    /\ lastOp.op = "search" /\ lastOp.out = "response"
    /\ hasMore
    /\ Len(results) = DefaultPageSize
    /\ searchReqs # {}

\* C12: results never holds trials fetched under two different filter sets
\* at once: after a filter change the next search issuance, loadMore's
\* included, discards what was accumulated under the previous filters.
C12_ResultsShareFilters ==
    \A i, j \in 1..Len(results) : results[i].f = results[j].f

\* C13: updateFilter(name, value) sets the named filter field to value and
\* page to 1, issues no search request, and leaves the other filter fields,
\* query, results, totalResults, hasMore, isLoading, error and
\* availableFilters unchanged.
C13_UpdateFilterFrame ==
    [][\A name \in FilterNames : \A value \in FilterValues(name) :
          UpdateFilter(name, value) =>
              /\ filters'[name] = value
              /\ \A other \in FilterNames \ {name} :
                    filters'[other] = filters[other]
              /\ page' = 1
              /\ UNCHANGED <<searchReqs, nSearches>>
              /\ UNCHANGED <<query, results, totalResults, hasMore,
                             searchIsLoading, searchError,
                             availableFilters>>]_vars

\* the phase filter was set with the gender filter already chosen and two
\* pages shown: page is back to 1, the pages and the gender filter remain
C13_Witness ==
    /\ lastOp.op = "updateFilter"
    /\ filters.phase = "PHASE2" /\ filters.gender = "FEMALE"
    /\ page = 1
    /\ Len(results) = 2 * DefaultPageSize
    /\ results[Len(results)].p = 2
    /\ results[Len(results)].f.phase = ""
    /\ results[Len(results)].f.gender = "FEMALE"
    /\ hasMore

\* C14: resetFilters() can be called in every state; whatever the filters
\* and the page were, it leaves phase, gender, healthyVolunteers and status
\* all '' and page 1 (and changes nothing else of the search state); called
\* where the filters are already empty and page is 1, as after a first
\* call, it changes nothing.
C14_ResetFiltersResets ==
    /\ [](ENABLED ResetFilters)
    /\ [][ResetFilters =>
            /\ filters' = [phase |-> "", gender |-> "",
                           healthyVolunteers |-> "", status |-> ""]
            /\ page' = 1
            /\ UNCHANGED <<query, results, totalResults, hasMore,
                           searchIsLoading, searchError, availableFilters,
                           searchReqs, nSearches>>
            /\ (filters = EmptyFilters /\ page = 1) => UNCHANGED searchVars]_vars

\* the filters were reset after page 2 had been fetched under a phase
\* filter: the filters are empty and page is 1 again
C14_Witness ==
    /\ lastOp.op = "resetFilters"
    /\ filters = EmptyFilters
    /\ page = 1
    /\ Len(results) = 2 * DefaultPageSize
    /\ results[Len(results)].p = 2
    /\ results[Len(results)].f.phase = "PHASE2"

\* the effective query of search(q, ...): the argument if non-null, else
\* the held query
EffectiveQuery(q) == IF q = NoQuery THEN query ELSE q[1]

\* C15 (as claimed): search(queryOrNull, page, pageSize) called when the
\* effective query is empty after trimming or when isConnected is false
\* issues no search request and leaves every SearchState field (query,
\* filters, results, totalResults, page, hasMore, isLoading, error)
\* unchanged.
C15_GuardedSearchChangesNothing ==
    [][\A q \in QueryArgs, p \in PageArgs, ps \in PageSizeArgs :
          (Search(q, p, ps)
              /\ (Trim(EffectiveQuery(q)) = <<>> \/ ~isConnected)) =>
              /\ UNCHANGED <<searchReqs, nSearches>>
              /\ UNCHANGED searchState]_vars

\* C15 (amended): such a call issues no search request and leaves filters,
\* results, totalResults, page, hasMore, isLoading and error unchanged;
\* query becomes the argument when the argument is non-null and is
\* unchanged when it is null.
C15_GuardedSearchOnlyAdoptsQuery ==
    [][\A q \in QueryArgs, p \in PageArgs, ps \in PageSizeArgs :
          (Search(q, p, ps)
              /\ (Trim(EffectiveQuery(q)) = <<>> \/ ~isConnected)) =>
              /\ UNCHANGED <<searchReqs, nSearches>>
              /\ UNCHANGED <<filters, results, totalResults, page, hasMore,
                             searchIsLoading, searchError>>
              /\ query' = EffectiveQuery(q)]_vars

\* a search made while disconnected: nothing was requested, the results of
\* the earlier query are still shown, the held query is the new one
C15_Witness ==
    /\ lastOp.op = "search" /\ lastOp.out = "noop"
    /\ ~isConnected
    /\ searchReqs = {}
    /\ Len(results) > 0
    /\ Trim(query) # <<>>
    /\ results[1].q # query

\* C16: when a search request fails, for page 1 or for a later page, error
\* is set, results becomes empty, totalResults becomes 0, hasMore becomes
\* false and isLoading becomes false.
C16_SearchFailureClears ==
    [][\A r \in searchReqs :
          (searchReqs' = searchReqs \ {r}) =>
              \A k \in FailureKinds :
                  SearchFailure(r, k) =>
                      /\ searchError' # NULL
                      /\ searchError' =
                            "Failed to search for trials. Please try again."
                      /\ results' = <<>>
                      /\ totalResults' = 0
                      /\ ~hasMore'
                      /\ ~searchIsLoading']_vars

\* the request for page 2 failed: the first page is gone too
C16_Witness ==
    /\ lastOp.op = "search" /\ lastOp.out = "failure" /\ lastOp.flag
    /\ searchError # NULL
    /\ results = <<>>
    /\ totalResults = 0
    /\ ~hasMore
    /\ ~searchIsLoading
    /\ page = 1

\* C17: loadMore() called while isLoading is true or hasMore is false issues
\* no search request and changes no state; otherwise it makes exactly the
\* call search(null, page + 1, pageSize): at most one search request is
\* issued, it is for the held query and filters, page + 1 and the held
\* pageSize, and it is issued whenever search's own guard (non-blank held
\* query, connected) lets the call through.
C17_LoadMoreGuard ==
    [][LoadMore =>
          /\ (searchIsLoading \/ ~hasMore) =>
                /\ UNCHANGED <<searchVars, healthVars, chatVars>>
                /\ lastOp'.out = "noop"
          /\ (~searchIsLoading /\ hasMore) =>
                /\ SearchCall("loadMore", NoQuery, page + 1, DefaultPageSize)
                /\ Cardinality(searchReqs' \ searchReqs) <= 1
                /\ \A r \in searchReqs' \ searchReqs :
                      /\ r.query = query /\ r.filters = filters
                      /\ r.page = page + 1
                      /\ r.pageSize = DefaultPageSize
                /\ (isConnected /\ Trim(query) # <<>>) =>
                      /\ Cardinality(searchReqs' \ searchReqs) = 1
                      /\ nSearches' = nSearches + 1
                /\ UNCHANGED <<results, totalResults, filters, page,
                               hasMore>>]_vars

\* loadMore went through after a full first page: one request, for the page
\* after the current one, is in flight
C17_Witness ==
    /\ lastOp.op = "loadMore" /\ lastOp.out = "requested"
    /\ hasMore /\ searchIsLoading
    /\ Len(results) = DefaultPageSize
    /\ \E r \in searchReqs :
          /\ searchReqs = {r}
          /\ r.page = page + 1 /\ r.pageSize = DefaultPageSize
          /\ r.query = query

(***************************************************************************)
(* Properties of the Connectivity Health Monitor, continued.               *)
(***************************************************************************)
\* C18: a failed health request does not propagate out of checkConnection:
\* the call resolves to false, isConnected becomes false, lastError is set
\* to the failure's message (to the text "Unable to connect to API" for a
\* failure that carries none), lastChecked is unchanged, and the
\* in-progress flag and isChecking are cleared; a health result whose
\* status is not "ok" gives the caller the same outcome: false is returned
\* and isConnected is false.
C18_HealthFailureAbsorbed ==
    [][\A r \in healthReqs :
          (healthReqs' = healthReqs \ {r}) =>
              /\ \A k \in FailureKinds :
                    HealthFailure(r, k) =>
                        /\ lastOp'.ret = "false"
                        /\ ~isConnected'
                        /\ apiError' # NULL
                        /\ ErrMessage(k) # "" => apiError' = ErrMessage(k)
                        /\ ErrMessage(k) = "" =>
                              apiError' = "Unable to connect to API"
                        /\ lastChecked' = lastChecked
                        /\ ~healthCheckInProgress'
                        /\ ~isChecking'
              /\ \A s \in Statuses \ {"ok"} :
                    HealthResponse(r, s) =>
                        /\ lastOp'.ret = "false"
                        /\ ~isConnected'
                        /\ ~healthCheckInProgress'
                        /\ ~isChecking']_vars

\* a check succeeded earlier; a later one failed for lack of a response
C18_Witness ==
    /\ lastOp.op = "checkConnection" /\ lastOp.out = "failure"
    /\ lastOp.ret = "false"
    /\ lastChecked # NoTime
    /\ lastChecked[1] < now
    /\ apiError = "Network Error"
    /\ ~isConnected /\ ~isChecking /\ ~healthCheckInProgress

\* C19: the delivery of a network-error or server-error notification sets
\* isConnected to false in that very step, whether or not a health check
\* is in flight and whatever the time, and changes nothing else of the
\* monitor; the unauthorized notification leaves isConnected as it was.
C19_NotificationsDisconnect ==
    [][\A ev \in Notifications :
          ApiErrorEvent(ev) =>
              /\ ev \in {"api:network-error", "api:server-error"} =>
                    ~isConnected'
              /\ ev = "auth:unauthorized" => isConnected' = isConnected
              /\ UNCHANGED <<lastChecked, isChecking, apiError,
                             healthCheckInProgress, healthReqs, nChecks,
                             healthCache, now>>]_vars

\* with the last health result "ok" and a new check in flight, a
\* notification has marked the service unreachable
C19_Witness ==
    /\ lastOp.op = "apiErrorEvent"
    /\ ~isConnected
    /\ healthCache.status = "ok"
    /\ apiError = NULL
    /\ healthReqs # {} /\ isChecking

(***************************************************************************)
(* Properties of the Conversational Session Manager, continued.            *)
(***************************************************************************)
\* C20: loadConversation(id) with a falsy id or while disconnected changes
\* nothing and issues no request; a response that has a messages field
\* replaces messages with the fetched sequence and sets conversationId to
\* the fetched id; a failed request, or a response lacking messages, sets
\* error and leaves messages and conversationId as they were; whenever the
\* call got past its guard, isLoading is false once it has completed.
C20_LoadConversation ==
    [][/\ \A id \in LoadIds :
            (LoadConversation(id) /\ (id = "" \/ ~isConnected)) =>
                /\ UNCHANGED conversationSession
                /\ IssuesNoChatRequest
       /\ \A r \in chatReqs :
            (r.kind = "load" /\ r \notin chatReqs') =>
                /\ \A data \in ConversationPayloads(r) :
                      ConversationResponse(r, data) =>
                          /\ data.hasMessages =>
                                /\ messages' = data.messages
                                /\ conversationId' = data.conversation_id
                          /\ ~data.hasMessages =>
                                /\ chatError' # NULL
                                /\ UNCHANGED <<messages, conversationId>>
                          /\ ~chatIsLoading'
                /\ \A k \in FailureKinds :
                      ConversationFailure(r, k) =>
                          /\ chatError' # NULL
                          /\ UNCHANGED <<messages, conversationId>>
                          /\ ~chatIsLoading']_vars

\* a stored conversation was loaded by the session's second request: the
\* fetched messages and id are all that is held
C20_Witness ==
    /\ lastOp.op = "loadConversation" /\ lastOp.out = "response"
    /\ messages = StoredMessages
    /\ conversationId = "c9"
    /\ ~chatIsLoading
    /\ chatReqs = {}
    /\ nSends = 2

TransportFailuresRecorded ==
    /\ \A r \in healthReqs :
          r \notin healthReqs' =>
              \A k \in FailureKinds :
                  HealthFailure(r, k) =>
                      apiError' # NULL /\ lastOp'.ret = "false"
    /\ \A r \in chatReqs :
          r \notin chatReqs' =>
              \A k \in FailureKinds :
                  /\ ChatFailure(r, k) =>
                        chatError' # NULL /\ lastOp'.ret = NULL
                  /\ ConversationFailure(r, k) =>
                        chatError' # NULL /\ lastOp'.ret = UNDEFINED
    /\ \A r \in searchReqs :
          r \notin searchReqs' =>
              \A k \in FailureKinds :
                  SearchFailure(r, k) =>
                      searchError' # NULL /\ lastOp'.ret = UNDEFINED
    /\ \A r \in filterReqs :
          r \notin filterReqs' =>
              \A k \in FailureKinds :
                  FilterOptionsFailure(r, k) =>
                      searchError' # NULL /\ lastOp'.ret = UNDEFINED

\* a conversation without messages and a filter-options body that is no
\* object are rejected by their operation, which sets its manager's error
RejectedPayloadsRecorded ==
    /\ \A r \in chatReqs :
          (r.kind = "load" /\ r \notin chatReqs') =>
              \A data \in ConversationPayloads(r) :
                  (~data.hasMessages /\ ConversationResponse(r, data)) =>
                      chatError' # NULL /\ lastOp'.ret = UNDEFINED
    /\ \A r \in filterReqs :
          r \notin filterReqs' =>
              \A data \in FilterOptionPayloads :
                  (~data.hasData /\ FilterOptionsResponse(r, data)) =>
                      searchError' # NULL /\ lastOp'.ret = UNDEFINED

SessionBoundary ==
    \/ StartNewConversation
    \/ \E r \in chatReqs : \E data \in ConversationPayloads(r) :
          data.hasMessages /\ ConversationResponse(r, data)

\* C23: within a session the message list is append-only: every step that
\* is not a session boundary either leaves messages as it is or appends
\* exactly one message at its end, keeping every message held in place and
\* unmodified.
C23_MessagesAppendOnly ==
    [][~SessionBoundary =>
          \/ messages' = messages
          \/ /\ Len(messages') = Len(messages) + 1
             /\ SubSeq(messages', 1, Len(messages)) = messages]_vars

\* two sends overlapped, the second failed first, then the first was
\* answered: four messages, each appended after the ones before
C23_Witness ==
    /\ lastOp.op = "sendMessage" /\ lastOp.out = "response"
    /\ Len(messages) = 4
    /\ messages[1].role = "user" /\ messages[2].role = "user"
    /\ messages[3].isError
    /\ messages[4].role = "assistant" /\ ~messages[4].isError
    /\ messages[4].content = <<"re:">> \o messages[1].content

(***************************************************************************)
(* Properties of the Remote Service Client.                                *)
(***************************************************************************)
\* C24: every failed request is rejected to its caller after the response
\* interceptor has dispatched exactly: unauthorized for HTTP 401;
\* server-error for a status >= 500; network-error for a request that got
\* no response (the 15-second timeout included); nothing for any other
\* HTTP error status and for a request-setup error.
C24_FailureClassification ==
    [][\A error \in Errors :
          RequestFails(error) =>
              /\ lastOp'.ret = "rejected"
              /\ Dispatched(error) =
                    IF error.response /\ error.status = 401
                    THEN {"auth:unauthorized"}
                    ELSE IF error.response /\ error.status >= 500
                    THEN {"api:server-error"}
                    ELSE IF ~error.response /\ error.request
                    THEN {"api:network-error"}
                    ELSE {}
              /\ lastOp'.info = DispatchLabel(Dispatched(error))
              /\ ("api:server-error" \in Dispatched(error)
                    \/ "api:network-error" \in Dispatched(error))
                    => ~isConnected']_vars

\* a request was rejected with a server error while the monitor, whose last
\* health result is "ok", had no check in flight
C24_Witness ==
    /\ lastOp.op = "request" /\ lastOp.ret = "rejected"
    /\ lastOp.info = "api:server-error"
    /\ ~isConnected
    /\ healthCache.status = "ok"
    /\ healthReqs = {}

\* C25: an unforced checkConnection(false) made while any earlier check,
\* forced or unforced, is still unresolved starts no health request: after
\* an unforced check A and a forced check B overlap and A resolves first,
\* an unforced call made before B resolves is still skipped.
C25_UnforcedNeverStartsWhileUnresolved ==
    [][(PeriodicCheck /\ healthReqs # {}) => IssuesNoHealthRequest]_vars

\* C26: two forced checks (checkHealth) that overlap both complete, and
\* the last write wins: a forced check called while another forced check
\* is in flight and the cache holds no valid entry issues its own request;
\* each forced request that resolves writes its own outcome to isConnected
\* and leaves the other one in flight, in whichever order they were
\* started; so once both have resolved isConnected is the outcome of the
\* later-resolving check.
C26_ForcedChecksLastWriteWins ==
    /\ [][(CheckHealth /\ (\E r \in healthReqs : r.force)
              /\ ~CacheValid(healthCache, now)) => IssuesHealthRequest]_vars
    /\ [][\A r \in healthReqs :
            (r.force /\ healthReqs' = healthReqs \ {r}) =>
                /\ \A s \in Statuses :
                      HealthResponse(r, s) => isConnected' = (s = "ok")
                /\ \A k \in FailureKinds :
                      HealthFailure(r, k) => ~isConnected']_vars
    /\ []((lastOp.op = "checkConnection"
             /\ lastOp.out \in {"response", "failure"})
            => isConnected = (lastOp.ret = "true"))

\* two overlapping checks, the second necessarily forced, have both
\* resolved: one failed first, the forced one that resolved last succeeded
C26_Witness ==
    /\ lastOp.op = "checkConnection" /\ lastOp.flag
    /\ lastOp.out = "response" /\ lastOp.ret = "true"
    /\ nChecks = 2 /\ healthReqs = {}
    /\ apiError # NULL
    /\ isConnected

\* the messages a resolution of the send r appends: its reply or the
\* apology
Resolutions(r) ==
    {AssistantMessage(response) : response \in ChatResponses(r)} \cup {ErrorMessage}

\* the send r is one of two sends issued back to back, with no reset since:
\* their user messages sit next to each other at positions first and
\* first + 1
OverlappingPair(r, first) ==
    /\ r.kind = "send" /\ ~r.stale
    /\ first >= 1 /\ first + 1 <= Len(messages)
    /\ r.at \in {first, first + 1}
    /\ messages[first].role = "user" /\ messages[first + 1].role = "user"
    /\ messages[r.at].content = r.text

\* C27: overlapping sends lose nothing. When sendMessage(a) and then
\* sendMessage(b) are issued before either resolves, with no reset or load
\* in between, the first of the two to resolve appends its assistant
\* message (reply or error) right after the two user messages, and the
\* second to resolve appends its own after that: the list ends with the two
\* user messages in send order followed by the two assistant messages in
\* resolution order.
C27_OverlappingSendsLoseNothing ==
    [][\A r \in chatReqs :
          (chatReqs' = chatReqs \ {r} /\ r.kind = "send" /\ ~r.stale) =>
              LET L == Len(messages) IN
              /\ (OverlappingPair(r, L - 1)
                    /\ \E r2 \in chatReqs \ {r} : OverlappingPair(r2, L - 1))
                   => /\ Len(messages') = L + 1
                      /\ SubSeq(messages', 1, L) = messages
                      /\ messages'[L + 1] \in Resolutions(r)
              /\ (OverlappingPair(r, L - 2)
                    /\ messages[L].role = "assistant"
                    /\ \A r2 \in chatReqs \ {r} : r2.kind # "send")
                   => /\ Len(messages') = L + 1
                      /\ SubSeq(messages', 1, L) = messages
                      /\ messages'[L + 1] \in Resolutions(r)
                      /\ messages'[L - 2].role = "user"
                      /\ messages'[L - 1].role = "user"
                      /\ messages'[L].role = "assistant"]_vars

\* two different turns were sent back to back; the second was answered
\* first, then the first
C27_Witness ==
    /\ lastOp.op = "sendMessage" /\ lastOp.out = "response" /\ ~lastOp.flag
    /\ chatReqs = {}
    /\ Len(messages) = 4
    /\ messages[1].role = "user" /\ messages[2].role = "user"
    /\ messages[1].content # messages[2].content
    /\ messages[3] = AssistantMessage([response |-> <<"re:">> \o messages[2].content,
                                       evidence |-> "evidence"])
    /\ messages[4] = AssistantMessage([response |-> <<"re:">> \o messages[1].content,
                                       evidence |-> "evidence"])

\* C28: a chat response that arrives after startNewConversation() for a
\* send issued before it is applied to the new session: the reply, or the
\* error message of a failure, is appended to the list as the reset left
\* it (so an assistant message can stand with no user message before it).
C28_LateResponseJoinsNewSession ==
    [][\A r \in chatReqs :
          (chatReqs' = chatReqs \ {r} /\ r.kind = "send" /\ r.stale) =>
              /\ \A response \in ChatResponses(r) :
                    ChatResponse(r, response) =>
                        messages' = Append(messages, AssistantMessage(response))
              /\ \A k \in FailureKinds :
                    ChatFailure(r, k) => messages' = Append(messages, ErrorMessage)]_vars

\* the reply to a turn sent before the reset is the only message of the
\* new session
C28_Witness ==
    /\ lastOp.op = "sendMessage" /\ lastOp.out = "response" /\ lastOp.flag
    /\ Len(messages) = 1
    /\ messages[1].role = "assistant" /\ ~messages[1].isError
    /\ messages[1].content = <<"re:", "hi">>

RECURSIVE PagesUpTo(_)
\* pages 1..pg of the held query under the held filters, in order
PagesUpTo(pg) ==
    IF pg = 0 THEN <<>>
    ELSE PagesUpTo(pg - 1)
           \o Trials([query |-> query, filters |-> filters, page |-> pg],
                     PageLength(pg))

\* C29: for a fixed query and fixed filters, whenever no search request is
\* in flight and the search that resolved last succeeded, results is the
\* in-order concatenation of pages 1..page of that query: no page is
\* missing, none appears twice.
C29_ResultsArePagesInOrder ==
    (searchReqs = {} /\ lastOp.op = "search" /\ lastOp.out = "response")
        => results = PagesUpTo(page)

\* C30: searches are never cancelled. The response to a search issued for
\* a query that is no longer the held one is applied on arrival like any
\* other: it replaces results if its page is 1 and is appended otherwise,
\* and it overwrites totalResults, hasMore and page; the held query stays.
\* So results can hold trials of a query other than the held query.
C30_OutdatedSearchStillApplied ==
    [][\A r \in searchReqs :
          (searchReqs' = searchReqs \ {r} /\ r.query # query) =>
              \A data \in SearchPayloads(r) :
                  SearchResponse(r, data) =>
                      /\ results' = IF r.page = 1 THEN ResultList(data)
                                    ELSE results \o ResultList(data)
                      /\ totalResults' = data.total
                      /\ hasMore' = (Len(ResultList(data)) >= r.pageSize)
                      /\ page' = r.page
                      /\ query' = query]_vars

\* both searches have resolved, the one for the earlier query last: the
\* results are trials of a query that is not the held one
C30_Witness ==
    /\ lastOp.op = "search" /\ lastOp.out = "response"
    /\ searchReqs = {} /\ nSearches = 2
    /\ query = <<"melanoma">>
    /\ Len(results) = DefaultPageSize
    /\ \A k \in 1..Len(results) : results[k].q = <<"asthma", " ">>
    /\ page = 1 /\ hasMore

(***************************************************************************)
(* Properties across the managers.                                         *)
(***************************************************************************)
\* a request of a manager fails in a way the Remote Service Client
\* broadcasts as network-error or server-error
BroadcastFailure ==
    \E k \in {"http500", "noResponse"} :
        \/ \E r \in chatReqs : ChatFailure(r, k) \/ ConversationFailure(r, k)
        \/ \E r \in searchReqs : SearchFailure(r, k)
        \/ \E r \in filterReqs : FilterOptionsFailure(r, k)

\* C31 as stated: no step of the chat and search managers, the failure of
\* a request they issued included, changes isConnected, lastChecked,
\* isChecking or lastError.
C31_ManagersNeverChangeMonitor ==
    [][UNCHANGED connectivityState]_vars

\* C31: no step of the chat and search managers changes lastChecked,
\* isChecking, lastError, the in-progress flag, the health cache or the
\* health requests; isConnected changes only from true to false, and only
\* when one of their requests fails with a status >= 500 or without a
\* response, which the Remote Service Client broadcasts and the monitor's
\* own listeners record.
C31_ManagersOnlyDisconnectThroughBroadcast ==
    [][/\ UNCHANGED <<lastChecked, isChecking, apiError, healthCheckInProgress,
                      healthReqs, nChecks, healthCache, now>>
       /\ isConnected' # isConnected =>
             isConnected /\ ~isConnected' /\ BroadcastFailure]_vars

\* a search failed and the monitor, which never checked, shows the service
\* unreachable
C31_Witness ==
    /\ lastOp.op = "search" /\ lastOp.out = "failure"
    /\ ~isConnected
    /\ lastChecked = NoTime /\ apiError = NULL /\ nChecks = 0
    /\ Truthy(searchError)

\* the requests in flight, of every manager
InFlight == Cardinality(healthReqs) + Cardinality(chatReqs)
              + Cardinality(searchReqs) + Cardinality(filterReqs)

\* C32: no failure triggers a retry. Every step issues at most one network
\* request, and only a step that is a call of checkConnection (the periodic
\* tick or the manual check), sendMessage, loadConversation, search or
\* loadFilterOptions issues one; the step in which a request fails, or is
\* answered with a payload the operation rejects, issues none: it takes one
\* request out of flight and adds none.
C32_NoAutomaticRetry ==
    [][/\ RequestsIssued' \in {RequestsIssued, RequestsIssued + 1}
       /\ RequestsIssued' = RequestsIssued + 1 =>
             /\ lastOp'.out = "requested"
             /\ lastOp'.op \in {"checkConnection", "sendMessage",
                                "loadConversation", "search",
                                "loadFilterOptions"}
             /\ InFlight' = InFlight + 1
       /\ lastOp'.out = "failure" =>
             /\ RequestsIssued' = RequestsIssued
             /\ InFlight' = InFlight - 1]_vars

\* three requests were issued by three calls; the last of them has just
\* failed and nothing is in flight
C32_Witness ==
    /\ lastOp.out = "failure" /\ lastOp.op = "loadFilterOptions"
    /\ RequestsIssued = MaxRequests
    /\ InFlight = 0
    /\ nFilterLoads = 1 /\ nSends = 1 /\ nChecks = 1

\* C33: loading flags are always released. Given that every network call
\* is answered, fails or times out, every chat turn, conversation fetch and
\* search that was issued is eventually out of flight (its operation has
\* exited), and in every state in which no request of a manager is in
\* flight that manager's isLoading is false.
C33_LoadingFlagsReleased ==
    /\ [](chatReqs = {} => ~chatIsLoading)
    /\ [](searchReqs = {} => ~searchIsLoading)
    /\ \A i \in 1..MaxSends :
          (\E r \in chatReqs : r.id = i) ~> ~(\E r \in chatReqs : r.id = i)
    /\ \A i \in 1..MaxSearches :
          (\E r \in searchReqs : r.id = i) ~> ~(\E r \in searchReqs : r.id = i)

\* a chat turn and a search were issued side by side and both have exited,
\* the turn by failing: neither manager is loading
C33_Witness ==
    /\ lastOp.op = "sendMessage" /\ lastOp.out = "failure"
    /\ nSends = 1 /\ nSearches = 1
    /\ chatReqs = {} /\ searchReqs = {}
    /\ ~chatIsLoading /\ ~searchIsLoading
    /\ results # <<>>

(***************************************************************************)
(* Properties of the Connectivity Health Monitor, continued.               *)
(***************************************************************************)
\* C34: isConnected goes from false to true only in the step in which a
\* health network request is answered with status "ok"; a check served
\* from the health cache never restores it after a network-error or
\* server-error notification set it to false.
C34_OnlyFreshOkReconnects ==
    [][(~isConnected /\ isConnected') =>
          \E r \in healthReqs : HealthResponse(r, "ok")]_vars

\* C35: the manual path bypasses the reentrancy guard only, not the health
\* cache. checkHealth() is never skipped, also while a check is in
\* progress; invoked while the cached entry is within its TTL it issues no
\* network request, resolves according to the cached status (isConnected
\* and the returned value are "status is ok") and sets lastChecked to the
\* current time.
C35_ForcedCheckUsesCache ==
    [][CheckHealth =>
          /\ lastOp'.out # "skipped"
          /\ CacheValid(healthCache, now) =>
                /\ IssuesNoHealthRequest
                /\ healthCache' = healthCache
                /\ lastOp'.out = "cached"
                /\ lastOp'.ret = BoolStr(healthCache.status = "ok")
                /\ isConnected' = (healthCache.status = "ok")
                /\ lastChecked' = <<now>>]_vars

\* a manual check made 20 s after the request whose "ok" is cached, while
\* another check is in flight, was served from the cache
C35_Witness ==
    /\ lastOp.op = "checkConnection" /\ lastOp.flag /\ lastOp.out = "cached"
    /\ lastOp.ret = "true"
    /\ healthCache.timestamp = <<0>> /\ now = 2 * TickMillis
    /\ lastChecked = <<now>>
    /\ healthReqs # {}

\* C36: the health cache never goes backwards: the cached timestamp never
\* decreases, so the result of a request started earlier never overwrites
\* the cached result of a request started later.
C36_CacheNeverGoesBackwards ==
    [][(healthCache.timestamp # NoTime /\ healthCache'.timestamp # NoTime) =>
          healthCache'.timestamp[1] >= healthCache.timestamp[1]]_vars

\* C37: in the chat manager and in the search manager isLoading is true in
\* every state in which at least one request of that manager (chat turn,
\* conversation fetch, search) is in flight, also when several overlap;
\* and so loadMore issues no request while a search request is in flight.
C37_LoadingWhileInFlight ==
    /\ chatReqs # {} => chatIsLoading
    /\ searchReqs # {} => searchIsLoading

(***************************************************************************)
(* Properties of the Conversational Session Manager across a reset.        *)
(***************************************************************************)
\* C38: after startNewConversation() conversationId stays absent until a
\* response arrives for a send issued after the reset: the response to a
\* send issued before the reset never makes the new session adopt a
\* conversation id.
C38_OutdatedResponseAdoptsNoId ==
    [][\A r \in chatReqs :
          (r.kind = "send" /\ r.stale /\ chatReqs' = chatReqs \ {r}
             /\ conversationId = NULL)
            => conversationId' = NULL]_vars

\* C39: connectivity recovers without user action. If isConnected is false
\* and from some point on the remote service answers every health request
\* with status "ok", then, the 5-minute timer firing again and again,
\* isConnected eventually becomes true again: the 15000 ms failure entry of
\* the cache has expired by the next firing, so a real request is made.
C39_ConnectivityRecovers ==
    /\ (~isConnected) ~> isConnected
    /\ [][(PeriodicCheck /\ healthCache.status = "error"
             /\ ~healthCheckInProgress
             /\ now - healthCache.timestamp[1] >= CheckInterval)
            => IssuesHealthRequest]_vars

\* after two failed health requests, five minutes apart, the third was
\* answered "ok" and the service is shown reachable again
C39_Witness ==
    /\ lastOp.op = "checkConnection" /\ lastOp.out = "response"
    /\ ~lastOp.flag
    /\ isConnected
    /\ apiError = NULL
    /\ nChecks = 3
    /\ now = 2 * CheckInterval
    /\ healthCache = [status |-> "ok", timestamp |-> <<now>>,
                      expiresIn |-> SuccessTtl]

\* C40: when forced checks are issued only through the header's refresh
\* control, which calls checkHealth() only while isChecking is false, at
\* most one health check is in flight in every state and isChecking is
\* true exactly while it is in flight (and so is the in-progress flag); a
\* click while isChecking is true changes nothing.
C40_RefreshControlKeepsOneCheck ==
    /\ [](Cardinality(healthReqs) <= 1)
    /\ [](isChecking <=> healthReqs # {})
    /\ [](healthCheckInProgress <=> healthReqs # {})
    /\ [][(HandleRefreshClick /\ isChecking) => UNCHANGED healthVars]_vars

\* a check made 10 s after the startup check failed was served the cached
\* failure; a click made once that entry had expired has issued the one
\* request in flight
C40_Witness ==
    /\ lastOp.op = "checkConnection" /\ lastOp.flag
    /\ lastOp.out = "requested"
    /\ isChecking /\ Cardinality(healthReqs) = 1
    /\ nChecks = 2
    /\ lastChecked = <<TickMillis>>
    /\ healthCache.status = "error" /\ healthCache.timestamp = <<0>>

====
